---- MODULE Spec2Model ----
(***************************************************************************)
(* Model of the AEON governance gateway.                                   *)
(*                                                                         *)
(*  Part A  aeon-engine: the intent admission pipeline                     *)
(*          (ResidentSubagent::call_mcp / handle_request / check_intent,   *)
(*          RiskScorer, the telemetry websocket's command ingress).        *)
(*  Part B  core: the mandate trust chain (approve_candidate,              *)
(*          verify_mandate_signature, pulse, and the host functions        *)
(*          spawn_cell, write_file, replace_block).                        *)
(*  Part C  aeon-engine: ResidentSubagent, callers and recycles interleaved *)
(*  Part D  core: the audit ledger, its actor thread and one client         *)
(*  Part E  functions called on their own (scrub_secrets, RiskScorer,       *)
(*          signature verification on file text, CapabilityManifest, the    *)
(*          /telemetry handlers) and the operator's aeon sign.              *)
(*  Part F  core: the orchestrator's main loop (commands, halt, heartbeat,  *)
(*          the debounced file watcher and the pulses it triggers).         *)
(*  Part G  core and aeon-engine: one websocket subscriber of the           *)
(*          telemetry broadcast channel.                                    *)
(*                                                                         *)
(* Strings the code inspects character by character (paths, commands,      *)
(* file contents) are tuples of one-character strings, so starts_with,     *)
(* contains, trim and to_lowercase are computed, not assumed.              *)
(* Risk scores are hundredths (0.8 is 80).                                 *)
(***************************************************************************)
EXTENDS Integers, Sequences, FiniteSets, TLC

VARIABLES
    \* ---- Part A: aeon-engine ----
    pc,            \* position of the stderr reader task inside call_mcp
    cur,           \* the request being admitted (NoReq when idle)
    nreq,          \* number of [AEON_MCP] lines read so far
    risk_score,    \* score_intent's result for cur
    telemetry,     \* signals sent on the broadcast channel, in order
    wasm_stdin,    \* requests written to the executor's stdin, in order
    responses,     \* what call_mcp returned to the reader loop, in order
    call_count,    \* ResidentSubagent.call_count
    inner,         \* generation of the executor held in ResidentSubagent.inner
    cmd_queue,     \* content of the mpsc command channel (server -> engine)
    halted_at,     \* nreq when the first HALT was put on cmd_queue, else NoHalt
    ledger,        \* rows of the audit ledger table
    \* ---- Part B: core ----
    mandates,      \* the mandates directory: file stem -> file or NoFile
    candidates,    \* the candidates directory: file stem -> file or NoFile
    pulse_pc,      \* position of the orchestrator inside pulse()
    pulse_todo,    \* directory entries the pulse loop has not visited yet
    running,       \* the instance executing inside spawn_instance, or NoCell
    spawned,       \* every instance spawn_instance was called for
    host_pc,       \* position of the running cell inside a host function
    host_ret,      \* return values of the host calls made so far
    drops,         \* number of files placed in mandates/ from outside
    \* ---- Part C: aeon-engine, ResidentSubagent under concurrent callers ----
    sup_pc,        \* position of each caller inside call_mcp
    inner_guard,   \* holder of the Mutex around inner (NoCaller when free)
    count_guard,   \* holder of the Mutex around call_count (NoCaller when free)
    exchange,      \* per caller: the executor its request was written to
    broken,        \* the executor in inner has hit EOF on its stdout
    calls,         \* number of call_mcp calls started
    returned,      \* number of call_mcp calls that returned Ok(response)
    lost,          \* number of call_mcp calls that returned Err
    recycles,      \* number of times inner was replaced
    \* ---- Part D: core, the ledger actor and one client of its API ----
    queue,         \* content of the bounded mpsc channel of LedgerMsg
    actor,         \* "starting", "running", or why the actor thread ended
    table,         \* rows of the SQL table ledger
    next_id,       \* next AUTOINCREMENT id
    cold,          \* archive files: file name (its second) -> rows written
    now,           \* Utc::now().timestamp()
    waiting,       \* the request whose oneshot reply the client awaits
    last,          \* result of the client's last finished API call
    accepted,      \* number of entries whose append returned Ok
    archives,      \* number of archive requests the actor has carried out
    \* ---- Part E: functions called on their own ----
    fcall,         \* the last call made: function, arguments, result
    \* ---- Part F: core, the orchestrator's main loop ----
    loop_pc,       \* position of main inside its loop, or "panicked"
    is_halted,     \* main's is_halted
    pending_pulse, \* main's pending_pulse
    quiet,         \* last_event_time.elapsed() >= 2 s
    cmd_rx,        \* commands on the mpsc channel (server -> main)
    watch_rx,      \* file events the watcher has sent and main has not read
    tx_telemetry,  \* the signal main's last step sent on the broadcast channel
    last_check,    \* what assess_governance returned in main's last step
    archive,       \* agent_id -> times its territory was copied to archive/
    last_pulse,    \* what the pulse run in main's last step did
    loop_pulses,   \* number of pulses the loop started
    \* ---- Part G: a telemetry subscriber (handle_socket) ----
    broadcasts,    \* number of signals sent on the broadcast channel
    cursor,        \* number of signals the subscriber's rx has gone past
    forwarding,    \* the send_task is inside its while loop
    socket_open,   \* the websocket has not been closed
    delivered      \* indices of the signals written to the websocket

engineVars == <<pc, cur, nreq, risk_score, telemetry, wasm_stdin, responses,
                call_count, inner, cmd_queue, halted_at, ledger>>
coreVars == <<mandates, candidates, pulse_pc, pulse_todo, running, spawned,
              host_pc, host_ret, drops>>
supVars == <<sup_pc, inner_guard, count_guard, exchange, broken, calls, returned,
             lost, recycles>>
ledgerVars == <<queue, actor, table, next_id, cold, now, waiting, last, accepted,
                archives>>
orchVars == <<loop_pc, is_halted, pending_pulse, quiet, cmd_rx, watch_rx,
              tx_telemetry, last_check, archive, last_pulse, loop_pulses>>
busVars == <<broadcasts, cursor, forwarding, socket_open, delivered>>
otherVars == <<fcall, orchVars, busVars>>
vars == <<engineVars, coreVars, supVars, ledgerVars, otherVars>>

-----------------------------------------------------------------------------
(* Bounds of the model *)

MaxRequests == 2
MaxCommands == 1

(* Program constants *)

RECYCLE_LIMIT == 50
RISK_DENY == 80
INTERNAL_ERROR == -32603
POLICY_VIOLATION == -32000      \* a2g.rs error_codes
PARSE_ERROR == -32700

Absent == "<absent>"            \* a JSON key that is missing (or not a string)
AbsentStr == <<"<absent>">>      \* the same, for character-tuple values
NoReq == [seq |-> 0]
NoHalt == -1
NoCode == 0
NoCell == [agent_id |-> "<nocell>"]
NoFile == [mandate |-> "<nofile>"]

-----------------------------------------------------------------------------
(* str helpers, computed on tuples of characters *)

StartsWith(s, p) == Len(p) <= Len(s) /\ SubSeq(s, 1, Len(p)) = p

Contains(s, p) ==
    \E i \in 1..(Len(s) - Len(p) + 1) : SubSeq(s, i, i + Len(p) - 1) = p

RECURSIVE TrimStart(_)
TrimStart(s) == IF s # <<>> /\ Head(s) = " " THEN TrimStart(Tail(s)) ELSE s

RECURSIVE TrimEnd(_)
TrimEnd(s) ==
    IF s # <<>> /\ s[Len(s)] = " " THEN TrimEnd(SubSeq(s, 1, Len(s) - 1)) ELSE s

Trim(s) == TrimEnd(TrimStart(s))

Upper == <<"A","B","C","D","E","F","G","H","I","J","K","L","M",
           "N","O","P","Q","R","S","T","U","V","W","X","Y","Z">>
Lower == <<"a","b","c","d","e","f","g","h","i","j","k","l","m",
           "n","o","p","q","r","s","t","u","v","w","x","y","z">>

LowerChar(c) ==
    IF \E i \in 1..26 : Upper[i] = c
    THEN Lower[CHOOSE i \in 1..26 : Upper[i] = c]
    ELSE c

ToLower(s) == [i \in 1..Len(s) |-> LowerChar(s[i])]

-----------------------------------------------------------------------------
(* The requests the agent may emit *)

PathTmp == <<"/","t","m","p","/","a">>
PathEtc == <<"/","e","t","c","/","p">>
PathTraversal == <<".",".","/","a">>
PathArgs(p) == [path |-> p, command |-> AbsentStr, content |-> AbsentStr]
CommandArgs(c) == [path |-> AbsentStr, command |-> c, content |-> AbsentStr]

\* wf: the line is well-formed JSON.  method: req["method"].  name: params.name
\* of a tools/call wrapper.  args: params.arguments of a wrapper, params of a
\* direct call.
Malformed == [wf |-> FALSE, method |-> "", name |-> Absent, args |-> PathArgs(AbsentStr)]
Wrapped(n, a) == [wf |-> TRUE, method |-> "tools/call", name |-> n, args |-> a]
Direct(m, a) == [wf |-> TRUE, method |-> m, name |-> Absent, args |-> a]

Requests ==
    {Malformed,
     Wrapped("write_file", PathArgs(PathTmp)),
     Wrapped("write_file", PathArgs(PathEtc)),
     Wrapped("write_file", PathArgs(PathTraversal)),
     Wrapped("execute_command", CommandArgs(<<" ","r","m"," ","x">>)),
     Wrapped("execute_command", CommandArgs(<<"c","u","r","l"," ","x","|"," ","s","h">>)),
     Direct("write_file", PathArgs(PathEtc)),
     Direct("write_file", PathArgs(PathTraversal))}

\* Outcomes of the model call: a score in hundredths, or a failure.
ModelFailed == -1
ModelOutcomes == {ModelFailed, 30, 80}

tool_name(req) ==
    IF req.method = "tools/call"
    THEN (IF req.name # Absent THEN req.name ELSE "unknown")
    ELSE req.method

tool_args(req) == req.args

-----------------------------------------------------------------------------
(* ResidentSubagent::check_intent: TRUE when the static policy denies *)

check_intent_denies(req) ==
    /\ req.method = "tools/call"
    /\ req.name # Absent
    /\ \/ /\ req.name = "write_file"
          /\ req.args.path # AbsentStr
          /\ \/ StartsWith(req.args.path, <<"/","e","t","c">>)
             \/ Contains(req.args.path, <<".",".">>)
       \/ /\ req.name = "execute_command"
          /\ req.args.command # AbsentStr
          /\ StartsWith(Trim(req.args.command), <<"r","m">>)

-----------------------------------------------------------------------------
(* RiskScorer *)

Max(a, b) == IF a >= b THEN a ELSE b

score_command(params) ==
    IF params.command = AbsentStr THEN 20
    ELSE LET c == ToLower(params.command)
             curl == Contains(c, <<"c","u","r","l">>)
             wget == Contains(c, <<"w","g","e","t">>)
         IN  IF (curl \/ wget)
                /\ (Contains(c, <<"|"," ","b","a","s","h">>)
                    \/ Contains(c, <<"|"," ","s","h">>))
             THEN 95
             ELSE IF wget \/ curl
             THEN (IF Contains(c, <<".","s","h">>) \/ Contains(c, <<".","p","y">>)
                   THEN 85 ELSE 70)
             ELSE IF StartsWith(c, <<"c","h","m","o","d"," ","7","7","7">>)
                     \/ Contains(c, <<"c","h","m","o","d"," ","-","R"," ","7","7","7">>)
             THEN 90
             ELSE IF Contains(c, <<"n","c"," ">>)
                     \/ Contains(c, <<"n","e","t","c","a","t">>)
             THEN 60
             ELSE IF Contains(c, <<"t","a","r"," ">>) /\ Contains(c, <<"-","c">>)
             THEN 50
             ELSE 20

score_file_write(params) ==
    LET s0 == 10
        s1 == IF params.path # AbsentStr
                 /\ (StartsWith(ToLower(params.path), <<"/","e","t","c">>)
                     \/ StartsWith(ToLower(params.path),
                                   <<"/","u","s","r","/","b","i","n">>))
              THEN Max(s0, 95) ELSE s0
        s2 == IF params.path # AbsentStr
                 /\ (Contains(ToLower(params.path), <<".","s","s","h","/">>)
                     \/ Contains(ToLower(params.path),
                                 <<".","b","a","s","h","r","c">>))
              THEN Max(s1, 70) ELSE s1
        s3 == IF params.content # AbsentStr
                 /\ (Contains(params.content, <<"B","E","G","I","N"," ","R","S","A"," ","P","R","I","V","A","T","E"," ","K","E","Y">>)
                     \/ Contains(params.content, <<"B","E","G","I","N"," ","O","P","E","N","S","S","H"," ","P","R","I","V","A","T","E"," ","K","E","Y">>)
                     \/ Contains(params.content, <<"B","E","G","I","N"," ","E","C"," ","P","R","I","V","A","T","E"," ","K","E","Y">>))
              THEN Max(s2, 95) ELSE s2
        s4 == IF params.content # AbsentStr
                 /\ Contains(ToLower(params.content),
                             <<"p","a","s","s","w","o","r","d">>)
                 /\ Contains(ToLower(params.content), <<"=">>)
              THEN Max(s3, 80) ELSE s3
        s5 == IF params.content # AbsentStr
                 /\ (Contains(params.content, <<"#","!","/","b","i","n","/","b","a","s","h">>)
                     \/ Contains(params.content, <<"#","!","/","b","i","n","/","s","h">>))
                 /\ (Contains(ToLower(params.content), <<"c","u","r","l">>)
                     \/ Contains(ToLower(params.content), <<"w","g","e","t">>))
              THEN Max(s4, 75) ELSE s4
    IN  s5

score_file_read(params) ==
    IF params.path = AbsentStr THEN 10
    ELSE IF Contains(ToLower(params.path), <<".","e","n","v">>)
            \/ Contains(ToLower(params.path),
                        <<"c","r","e","d","e","n","t","i","a","l","s">>)
    THEN 60
    ELSE IF Contains(ToLower(params.path), <<".","s","s","h","/","i","d","_">>)
    THEN 70
    ELSE 10

score_with_heuristics(method, params) ==
    CASE method = "execute_command" -> score_command(params)
      [] method = "write_file" -> score_file_write(params)
      [] method = "read_file" -> score_file_read(params)
      [] OTHER -> 10

score_intent_model_first(method, params, model) ==
    IF model # ModelFailed
    THEN model
    ELSE score_with_heuristics(method, params)

\* model: what score_with_model returned (ModelFailed for Err)
score_intent(method, params, model) ==
    IF model # ModelFailed
    THEN Max(model, score_with_heuristics(method, params))
    ELSE score_with_heuristics(method, params)

-----------------------------------------------------------------------------
(* Part A: the admission pipeline of aeon-engine *)

\* Signal::new(method, params, "WARDEN").  seq is the ordinal of the admitted
\* line; it stands for the identity of the request the signal is about.
Signal(method, phase, score) ==
    [method |-> method, tool |-> tool_name(cur.req), phase |-> phase,
     risk_score |-> score, seq |-> cur.seq]

Response(seq, kind, code) == [seq |-> seq, kind |-> kind, code |-> code]

\* ResidentSubagent::check_recycle followed by the increment of call_mcp
check_recycle_and_count ==
    IF call_count >= RECYCLE_LIMIT
    THEN inner' = inner + 1 /\ call_count' = 0 + 1
    ELSE inner' = inner /\ call_count' = call_count + 1

\* The tail of call_mcp once handle_request has produced its response
call_mcp_return(resp) ==
    /\ responses' = Append(responses, resp)
    /\ check_recycle_and_count
    /\ pc' = "idle"
    /\ cur' = NoReq

\* main's stderr reader takes one [AEON_MCP] line and enters call_mcp;
\* handle_request parses it and broadcasts AUDIT_INTENT.
ReadLine(r) ==
    /\ pc = "idle"
    /\ nreq < MaxRequests
    /\ nreq' = nreq + 1
    /\ IF ~r.wf
       THEN /\ call_mcp_return(Response(nreq + 1, "invalid_json", NoCode))
            /\ UNCHANGED telemetry
       ELSE /\ cur' = [seq |-> nreq + 1, req |-> r]
            /\ telemetry' = Append(telemetry,
                   [method |-> "AUDIT_INTENT", tool |-> tool_name(r),
                    phase |-> "CHECKING", risk_score |-> NoCode, seq |-> nreq + 1])
            /\ pc' = "policy"
            /\ UNCHANGED <<responses, call_count, inner>>
    /\ UNCHANGED <<risk_score, wasm_stdin, cmd_queue, halted_at, ledger, coreVars, supVars, ledgerVars, otherVars>>

StaticPolicySilent ==
    /\ pc = "policy"
    /\ IF check_intent_denies(cur.req)
       THEN /\ call_mcp_return(Response(cur.seq, "policy_denied", INTERNAL_ERROR))
            /\ UNCHANGED telemetry
       ELSE /\ pc' = "risk"
            /\ UNCHANGED <<telemetry, responses, call_count, inner, cur>>
    /\ UNCHANGED <<nreq, risk_score, wasm_stdin, cmd_queue, halted_at, ledger, coreVars, supVars, ledgerVars, otherVars>>

\* handle_request, static policy check
StaticPolicy ==
    /\ pc = "policy"
    /\ IF check_intent_denies(cur.req)
       THEN /\ telemetry' = Append(telemetry, Signal("INTENT_BLOCKED", "POLICY", NoCode))
            /\ call_mcp_return(Response(cur.seq, "policy_denied", INTERNAL_ERROR))
       ELSE /\ pc' = "risk"
            /\ UNCHANGED <<telemetry, responses, call_count, inner, cur>>
    /\ UNCHANGED <<nreq, risk_score, wasm_stdin, cmd_queue, halted_at, ledger, coreVars, supVars, ledgerVars, otherVars>>

risk_denies_strict(score) == score > RISK_DENY

\* TRUE when handle_request refuses an intent with this score
risk_denies(score) == score >= RISK_DENY

\* handle_request, risk scoring; model is the outcome of the HTTP call
RiskScoring(model) ==
    /\ pc = "risk"
    /\ LET score == score_intent(tool_name(cur.req), tool_args(cur.req), model)
       IN  /\ risk_score' = score
           /\ IF risk_denies(score)
              THEN /\ telemetry' = Append(telemetry,
                          Signal("INTENT_BLOCKED", "RISK_ASSESSMENT", score))
                   /\ call_mcp_return(Response(cur.seq, "risk_denied", INTERNAL_ERROR))
              ELSE /\ pc' = "manifest"
                   /\ UNCHANGED <<telemetry, responses, call_count, inner, cur>>
    /\ UNCHANGED <<nreq, wasm_stdin, cmd_queue, halted_at, ledger, coreVars, supVars, ledgerVars, otherVars>>

ManifestWithoutAllow ==
    /\ pc = "manifest"
    /\ pc' = "exec"
    /\ UNCHANGED <<cur, nreq, risk_score, telemetry, wasm_stdin, responses, call_count,
                   inner, cmd_queue, halted_at, ledger, coreVars, supVars, ledgerVars, otherVars>>

\* handle_request, the manifest log line and the INTENT_ALLOWED broadcast
ManifestAndAllow ==
    /\ pc = "manifest"
    /\ telemetry' = Append(telemetry, Signal("INTENT_ALLOWED", "ALLOWED", risk_score))
    /\ pc' = "exec"
    /\ UNCHANGED <<cur, nreq, risk_score, wasm_stdin, responses, call_count, inner,
                   cmd_queue, halted_at, ledger, coreVars, supVars, ledgerVars, otherVars>>

\* call_wasm, write_all + flush of the framed request under the inner lock
CallWasmWrite(ok) ==
    /\ pc = "exec"
    /\ IF ok
       THEN /\ wasm_stdin' = Append(wasm_stdin,
                   [seq |-> cur.seq, req |-> cur.req, inner |-> inner])
            /\ pc' = "reply"
            /\ UNCHANGED <<responses, call_count, inner, cur>>
       ELSE /\ call_mcp_return(Response(cur.seq, "write_error", NoCode))
            /\ UNCHANGED wasm_stdin
    /\ UNCHANGED <<nreq, risk_score, telemetry, cmd_queue, halted_at, ledger, coreVars, supVars, ledgerVars, otherVars>>

\* call_wasm, read_framed_message; ok is whether a framed reply was read
CallWasmRead(ok) ==
    /\ pc = "reply"
    /\ call_mcp_return(Response(cur.seq, IF ok THEN "reply" ELSE "read_error", NoCode))
    /\ UNCHANGED <<nreq, risk_score, telemetry, wasm_stdin, cmd_queue, halted_at,
                   ledger, coreVars, supVars, ledgerVars, otherVars>>

\* server.rs handle_socket: a websocket client sends {type: HALT} or
\* {type: SIGNAL}; the command is put on the mpsc channel.
WsCommand(c) ==
    /\ Len(cmd_queue) < MaxCommands
    /\ cmd_queue' = Append(cmd_queue, c)
    /\ halted_at' = IF c = "Halt" /\ halted_at = NoHalt THEN nreq ELSE halted_at
    /\ UNCHANGED <<pc, cur, nreq, risk_score, telemetry, wasm_stdin, responses,
                   call_count, inner, ledger, coreVars, supVars, ledgerVars, otherVars>>

InitEngine ==
    /\ pc = "idle"
    /\ cur = NoReq
    /\ nreq = 0
    /\ risk_score = 0
    /\ telemetry = <<>>
    /\ wasm_stdin = <<>>
    /\ responses = <<>>
    /\ call_count = 0
    /\ inner = 0
    /\ cmd_queue = <<>>
    /\ halted_at = NoHalt
    /\ ledger = <<>>

-----------------------------------------------------------------------------
(* Part B: the mandate trust chain of core *)

MaxPulses == 2
MaxDrops == 1
MaxHostCalls == 2

Names == {"repair_cell", "alpha", "beta"}

SovereignKey == "sovereign_pk"     \* hex of the key in .aeon/keyring
ForeignKey == "foreign_pk"         \* hex of any other ed25519 key
NoKey == "<nokey>"
NoSig == [signer |-> NoKey]

\* main.rs / host_functions.rs compute_did, with the keyring loaded
compute_did(agent_id, version) == <<"did:aeon", agent_id, version, SovereignKey>>

\* struct Mandate (subscriptions and blueprint are read by no check)
Mandate(a, v, d, p, t) ==
    [agent_id |-> a, version |-> v, did |-> d, permissions |-> p, territory |-> t]

\* keyring.rs sign / ed25519 verify: a signature names its signer and message
sign(key, msg) == [signer |-> key, msg |-> msg]
verify_any_message(key, msg, sig) == sig.signer = key

verify(key, msg, sig) == sig.signer = key /\ sig.msg = msg

\* A .toml file: the parsed mandate and what the comment lines after it hold.
\*  marker: contains "# (lock) GOVERNANCE ORACLE SIGNATURE"
\*  delims: occurrences of the full trailer delimiter (it contains the marker)
\*  algo:   contains "# Algorithm: ed25519"
\*  pubkey, sig: the "# Public-Key:" and "# Signature:" lines
UnsignedFile(m) ==
    [mandate |-> m, marker |-> FALSE, delims |-> 0, algo |-> FALSE,
     pubkey |-> NoKey, sig |-> NoSig]

\* governance.rs approve_candidate, step 6: body followed by the trailer block
SignedFile(m, key) ==
    [mandate |-> m, marker |-> TRUE, delims |-> 1, algo |-> TRUE,
     pubkey |-> key, sig |-> sign(key, m)]

verify_mandate_signature(f) ==
    IF f.delims # 1 THEN "err"
    ELSE IF f.sig = NoSig \/ f.pubkey = NoKey THEN "err"
    ELSE IF verify(f.pubkey, f.mandate, f.sig) THEN "true"
    ELSE "false"

\* Files an outside party may place in mandates/ under stem n
DropFiles(n) ==
    LET good == Mandate(n, "1.0.0", compute_did(n, "1.0.0"), {"NET", "FS_WRITE"}, {})
        forged == [good EXCEPT !.did = <<"did:aeon", n, "1.0.0", ForeignKey>>]
        other == [good EXCEPT !.permissions = {}]
    IN  {UnsignedFile(good),
         [UnsignedFile(good) EXCEPT !.marker = TRUE],
         [UnsignedFile(forged) EXCEPT !.marker = TRUE],
         [SignedFile(good, SovereignKey) EXCEPT !.sig = sign(SovereignKey, other)],
         [SignedFile(good, SovereignKey) EXCEPT !.delims = 2],
         SignedFile(good, ForeignKey)}

\* Paths a cell may pass to write_file / replace_block: the string it passes,
\* what fs::canonicalize makes of it, and the mandates/ file it denotes.
MandatePath(n) ==
    [raw |-> <<".",".","/","m","a","n","d","a","t","e","s","/",n,".","t","o","m","l">>,
     abs |-> <<"/","w","/","m","a","n","d","a","t","e","s","/",n,".","t","o","m","l">>,
     target |-> n]
LinkPath(n) ==
    [raw |-> <<"/","t","m","p","/","l","/",n,".","t","o","m","l">>,
     abs |-> <<"/","w","/","m","a","n","d","a","t","e","s","/",n,".","t","o","m","l">>,
     target |-> n]
OutsidePath ==
    [raw |-> <<"/","t","m","p","/","o","u","t">>,
     abs |-> <<"/","t","m","p","/","o","u","t">>,
     target |-> "outside"]

CellPaths == {MandatePath("alpha"), LinkPath("alpha"), OutsidePath}

\* Bytes a cell may pass to write_file / replace_block for the file at path
CellContents(path) ==
    LET m == Mandate(path.target, "1.0.0", compute_did(path.target, "1.0.0"),
                     {"NET", "FS_WRITE", "MITOSIS"}, {})
    IN  {[UnsignedFile(m) EXCEPT !.marker = TRUE]}

\* File stems an outside party writes under
DropNames == {"repair_cell", "beta"}

\* What a cell may ask spawn_cell for
ChildRequests ==
    {[agent_id |-> "alpha", permissions |-> {"FS_WRITE"}],
     [agent_id |-> "beta", permissions |-> {"FS_WRITE"}],
     [agent_id |-> "beta", permissions |-> {"NET"}]}

\* No spawn_instance yet / no host call made by the running cell yet
NoSpawn == [stem |-> "<none>"]
NoRet(n) == [fn |-> "<none>", n |-> n]

\* The running cell is not inside a host call
HostIdle == [op |-> "idle"]

\* What the last host call returned to the cell, and the calls made so far
HostRet(fn, arg, ret) ==
    [fn |-> fn, arg |-> arg, ret |-> ret, n |-> host_ret.n + 1]

\* Someone outside the orchestrator writes a file into mandates/
ExternalDrop(n, f) ==
    /\ drops < MaxDrops
    /\ drops' = drops + 1
    /\ mandates' = [mandates EXCEPT ![n] = f]
    /\ UNCHANGED <<candidates, pulse_pc, pulse_todo, running, spawned, host_pc,
                   host_ret, engineVars, supVars, ledgerVars, otherVars>>

\* governance.rs approve_candidate ("aeon sign <name>", its own process)
approve_candidate(name) ==
    /\ candidates[name] # NoFile
    /\ LET m == candidates[name].mandate
           updated == [m EXCEPT !.did = <<"did:aeon", m.agent_id, m.version, SovereignKey>>]
       IN  mandates' = [mandates EXCEPT ![name] = SignedFile(updated, SovereignKey)]
    /\ candidates' = [candidates EXCEPT ![name] = NoFile]
    /\ UNCHANGED <<pulse_pc, pulse_todo, running, spawned, host_pc, host_ret, drops,
                   engineVars, supVars, ledgerVars, otherVars>>

\* spawn_instance: the cell runs inside the call until _start returns
spawn_instance(n, f, via) ==
    /\ spawned' = [stem |-> n, file |-> f, via |-> via]
    /\ running' = f.mandate

\* pulse(), from its entry to the directory loop.  blocked: AEON_SECURE is
\* set and a spec lacks its signature.  traumatized: the health check failed.
PulseStart(blocked, traumatized) ==
    /\ pulse_pc = "idle"
    /\ IF blocked
       THEN UNCHANGED <<pulse_pc, pulse_todo, running, spawned, ledger>>
       ELSE /\ Len(ledger) < MaxPulses
            /\ ledger' = Append(ledger, [agent_id |-> "SOVEREIGN",
                   operation |-> "AEON_STARTUP", status |-> "SUCCESS"])
            /\ IF traumatized /\ mandates["repair_cell"] # NoFile
               THEN /\ spawn_instance("repair_cell", mandates["repair_cell"], "repair")
                    /\ pulse_pc' = "repair"
                    /\ UNCHANGED pulse_todo
               ELSE /\ pulse_pc' = "loop"
                    /\ pulse_todo' = {n \in Names : mandates[n] # NoFile}
                    /\ UNCHANGED <<running, spawned>>
    /\ UNCHANGED <<mandates, candidates, host_pc, host_ret, drops,
                   pc, cur, nreq, risk_score, telemetry, wasm_stdin, responses,
                   call_count, inner, cmd_queue, halted_at, supVars, ledgerVars, otherVars>>

\* TRUE when the pulse loop lets the file through its three locks
pulse_loads(f) ==
    /\ ~(~f.marker /\ f.mandate.agent_id # "repair_cell")
    /\ ~(f.algo /\ f.mandate.agent_id # "repair_cell"
         /\ verify_mandate_signature(f) # "true")
    /\ f.mandate.did = compute_did(f.mandate.agent_id, f.mandate.version)

\* One iteration of pulse()'s loop over mandates/*.toml
PulseFile(n) ==
    /\ pulse_pc = "loop"
    /\ n \in pulse_todo
    /\ pulse_todo' = pulse_todo \ {n}
    /\ LET f == mandates[n]
       IN  IF pulse_loads(f) /\ f.mandate.agent_id # "repair_cell"
           THEN /\ spawn_instance(n, f, "pulse")
                /\ pulse_pc' = "cell"
           ELSE UNCHANGED <<pulse_pc, running, spawned>>
    /\ UNCHANGED <<mandates, candidates, host_pc, host_ret, drops, engineVars, supVars, ledgerVars, otherVars>>

PulseEnd ==
    /\ pulse_pc = "loop"
    /\ pulse_todo = {}
    /\ pulse_pc' = "idle"
    /\ UNCHANGED <<mandates, candidates, pulse_todo, running, spawned, host_pc,
                   host_ret, drops, engineVars, supVars, ledgerVars, otherVars>>

\* The running cell's _start returns (ok) or traps: spawn_instance returns,
\* and on Err the ? operator ends the pulse.
CellExit(ok) ==
    /\ running # NoCell
    /\ host_pc = HostIdle
    /\ running' = NoCell
    /\ host_ret' = NoRet(host_ret.n)
    /\ IF ~ok
       THEN pulse_pc' = "idle" /\ pulse_todo' = {}
       ELSE IF pulse_pc = "repair"
       THEN pulse_pc' = "loop" /\ pulse_todo' = {n \in Names : mandates[n] # NoFile}
       ELSE pulse_pc' = "loop" /\ UNCHANGED pulse_todo
    /\ UNCHANGED <<mandates, candidates, spawned, host_pc, drops, engineVars, supVars, ledgerVars, otherVars>>

\* spawn_cell without the Law of Conservation
conserves_nothing(child, parent) == TRUE

\* TRUE when spawn_cell's Law of Conservation lets the child through
conserves(child, parent) ==
    \A perm \in child.permissions : perm \in parent.permissions

\* host function spawn_cell, up to and including its existence check
SpawnCellCheck(child) ==
    /\ running # NoCell
    /\ host_pc = HostIdle
    /\ host_ret.n < MaxHostCalls
    /\ IF /\ "MITOSIS" \in running.permissions
          /\ conserves(child, running)
          /\ mandates[child.agent_id] = NoFile
       THEN /\ host_pc' = [op |-> "spawn_write", child |-> child]
            /\ UNCHANGED host_ret
       ELSE /\ host_ret' = HostRet("spawn_cell", child, 1)
            /\ UNCHANGED host_pc
    /\ UNCHANGED <<mandates, candidates, pulse_pc, pulse_todo, running, spawned,
                   drops, engineVars, supVars, ledgerVars, otherVars>>

\* host function spawn_cell, the fs::write of the child's DNA
SpawnCellWrite(ok) ==
    /\ host_pc.op = "spawn_write"
    /\ host_pc' = HostIdle
    /\ LET child == host_pc.child
           dna == Mandate(child.agent_id, "1.0.0",
                          compute_did(child.agent_id, "1.0.0"), child.permissions, {})
       IN  IF ok
           THEN /\ mandates' = [mandates EXCEPT ![child.agent_id] = UnsignedFile(dna)]
                /\ host_ret' = HostRet("spawn_cell", child, 0)
           ELSE /\ host_ret' = HostRet("spawn_cell", child, 1)
                /\ UNCHANGED mandates
    /\ UNCHANGED <<candidates, pulse_pc, pulse_todo, running, spawned, drops, engineVars, supVars, ledgerVars, otherVars>>

\* territory.is_empty() || territory.iter().any(|t| path.starts_with(t))
in_territory(territory, path) ==
    territory = {} \/ \E t \in territory : StartsWith(path, t)

\* TRUE when write_file's checks let the call reach fs::write
write_file_allowed(path) ==
    /\ ~(Contains(path.abs, <<"/",".","a","e","o","n">>) \/ Contains(path.raw, <<".","a","e","o","n">>))
    /\ in_territory(running.territory, path.abs)
    /\ ~Contains(path.abs, <<"/","m","a","n","d","a","t","e","s","/">>)
    /\ "FS_WRITE" \in running.permissions

\* TRUE when replace_block's checks let the call reach fs::write
replace_block_allowed(path) ==
    /\ in_territory(running.territory, path.raw)
    /\ "FS_WRITE" \in running.permissions

\* host function write_file: the file the path denotes gets the cell's bytes
\* (a path outside mandates/ changes nothing modelled here)
write_file(path, content) ==
    /\ running # NoCell
    /\ host_pc = HostIdle
    /\ host_ret.n < MaxHostCalls
    /\ IF write_file_allowed(path)
       THEN /\ mandates' = IF path.target \in Names
                           THEN [mandates EXCEPT ![path.target] = content]
                           ELSE mandates
            /\ host_ret' = HostRet("write_file", path, 0)
       ELSE /\ host_ret' = HostRet("write_file", path, 1)
            /\ UNCHANGED mandates
    /\ UNCHANGED <<candidates, pulse_pc, pulse_todo, running, spawned, host_pc,
                   drops, engineVars, supVars, ledgerVars, otherVars>>

\* host function replace_block, called with a range covering the whole file
replace_block(path, content) ==
    /\ running # NoCell
    /\ host_pc = HostIdle
    /\ host_ret.n < MaxHostCalls
    /\ IF replace_block_allowed(path)
       THEN /\ mandates' = IF path.target \in Names
                           THEN [mandates EXCEPT ![path.target] = content]
                           ELSE mandates
            /\ host_ret' = HostRet("replace_block", path, 0)
       ELSE /\ host_ret' = HostRet("replace_block", path, 1)
            /\ UNCHANGED mandates
    /\ UNCHANGED <<candidates, pulse_pc, pulse_todo, running, spawned, host_pc,
                   drops, engineVars, supVars, ledgerVars, otherVars>>

InitCore ==
    /\ \E perms \in {{"MITOSIS"}, {"MITOSIS", "FS_WRITE"}} :
       \E terr \in {{}, {<<"/","t","m","p","/">>}} :
          mandates = [n \in Names |->
              IF n = "alpha"
              THEN SignedFile(Mandate("alpha", "1.0.0", compute_did("alpha", "1.0.0"),
                                      perms, terr), SovereignKey)
              ELSE NoFile]
    /\ candidates = [n \in Names |->
          IF n = "beta"
          THEN UnsignedFile(Mandate("beta", "1.0.0", <<"did:aeon", "beta", "1.0.0", "draft">>,
                                    {"NET"}, {}))
          ELSE NoFile]
    /\ pulse_pc = "idle"
    /\ pulse_todo = {}
    /\ running = NoCell
    /\ spawned = NoSpawn
    /\ host_pc = HostIdle
    /\ host_ret = NoRet(0)
    /\ drops = 0

NextMandate ==
    \/ \E n \in DropNames : \E f \in DropFiles(n) : ExternalDrop(n, f)
    \/ \E name \in Names : approve_candidate(name)
    \/ \E blocked \in BOOLEAN : \E traumatized \in BOOLEAN : PulseStart(blocked, traumatized)
    \/ \E n \in Names : PulseFile(n)
    \/ PulseEnd
    \/ \E ok \in BOOLEAN : CellExit(ok)
    \/ \E child \in ChildRequests : SpawnCellCheck(child)
    \/ \E ok \in BOOLEAN : SpawnCellWrite(ok)
    \/ \E path \in CellPaths : \E f \in CellContents(path) : write_file(path, f)
    \/ \E path \in CellPaths : \E f \in CellContents(path) : replace_block(path, f)

-----------------------------------------------------------------------------
(* Part C: ResidentSubagent (the sandbox supervisor) under concurrent callers *)

MaxCalls == 52

Callers == {1, 2}
NoCaller == 0
NoExchange == -1

\* The part of engineVars the supervisor does not touch
admissionVars == <<pc, cur, nreq, risk_score, telemetry, wasm_stdin, responses,
                   cmd_queue, halted_at, ledger>>

\* call_mcp returns to its caller: Ok(response) or, from check_recycle's ?, Err
call_mcp_returns(t, ok) ==
    /\ sup_pc' = [sup_pc EXCEPT ![t] = "idle"]
    /\ returned' = IF ok THEN returned + 1 ELSE returned
    /\ lost' = IF ok THEN lost ELSE lost + 1

\* A caller enters call_mcp; handle_request either answers by itself (parse
\* error, policy or risk denial) or goes on to call_wasm.
CallMcp(t, forward) ==
    /\ sup_pc[t] = "idle"
    /\ calls < MaxCalls
    /\ calls' = calls + 1
    /\ sup_pc' = [sup_pc EXCEPT ![t] = IF forward THEN "call_wasm" ELSE "check_recycle"]
    /\ UNCHANGED <<inner_guard, count_guard, exchange, broken, returned, lost, recycles,
                   call_count, inner, admissionVars, coreVars, ledgerVars, otherVars>>

\* call_wasm: self.inner.lock()
LockInner(t) ==
    /\ sup_pc[t] = "call_wasm"
    /\ inner_guard = NoCaller
    /\ inner_guard' = t
    /\ sup_pc' = [sup_pc EXCEPT ![t] = "write"]
    /\ UNCHANGED <<count_guard, exchange, broken, calls, returned, lost, recycles,
                   call_count, inner, admissionVars, coreVars, ledgerVars, otherVars>>

\* call_wasm: write_all + flush; on failure the guard is dropped with the return
WriteRequest(t, ok) ==
    /\ sup_pc[t] = "write"
    /\ IF ok
       THEN /\ exchange' = [exchange EXCEPT ![t] = inner]
            /\ sup_pc' = [sup_pc EXCEPT ![t] = "read"]
            /\ UNCHANGED inner_guard
       ELSE /\ inner_guard' = NoCaller
            /\ sup_pc' = [sup_pc EXCEPT ![t] = "check_recycle"]
            /\ UNCHANGED exchange
    /\ UNCHANGED <<count_guard, broken, calls, returned, lost, recycles,
                   call_count, inner, admissionVars, coreVars, ledgerVars, otherVars>>

ReadReply_holding_inner(t, eof) ==
    /\ sup_pc[t] = "read"
    /\ broken' = (broken \/ eof)
    /\ exchange' = [exchange EXCEPT ![t] = NoExchange]
    /\ sup_pc' = [sup_pc EXCEPT ![t] = "check_recycle"]
    /\ UNCHANGED <<inner_guard, count_guard, calls, returned, lost, recycles,
                   call_count, inner, admissionVars, coreVars, ledgerVars, otherVars>>

\* call_wasm: read_framed_message, then the guard is dropped.  eof: the read
\* hit EOF in the headers or the body; either way call_wasm returns a string.
ReadReply(t, eof) ==
    /\ sup_pc[t] = "read"
    /\ broken' = (broken \/ eof)
    /\ exchange' = [exchange EXCEPT ![t] = NoExchange]
    /\ inner_guard' = NoCaller
    /\ sup_pc' = [sup_pc EXCEPT ![t] = "check_recycle"]
    /\ UNCHANGED <<count_guard, calls, returned, lost, recycles,
                   call_count, inner, admissionVars, coreVars, ledgerVars, otherVars>>

\* check_recycle: self.call_count.lock() and the test against RECYCLE_LIMIT
CheckRecycle(t) ==
    /\ sup_pc[t] = "check_recycle"
    /\ count_guard = NoCaller
    /\ IF call_count >= RECYCLE_LIMIT
       THEN /\ count_guard' = t
            /\ sup_pc' = [sup_pc EXCEPT ![t] = "spawn_process"]
       ELSE /\ UNCHANGED count_guard
            /\ sup_pc' = [sup_pc EXCEPT ![t] = "increment"]
    /\ UNCHANGED <<inner_guard, exchange, broken, calls, returned, lost, recycles,
                   call_count, inner, admissionVars, coreVars, ledgerVars, otherVars>>

\* check_recycle: Self::spawn_process(..)?  On Err both check_recycle and
\* call_mcp return it, dropping the count guard and the response.
SpawnProcess(t, ok) ==
    /\ sup_pc[t] = "spawn_process"
    /\ IF ok
       THEN /\ sup_pc' = [sup_pc EXCEPT ![t] = "replace"]
            /\ UNCHANGED <<count_guard, returned, lost>>
       ELSE /\ count_guard' = NoCaller
            /\ call_mcp_returns(t, FALSE)
    /\ UNCHANGED <<inner_guard, exchange, broken, calls, recycles,
                   call_count, inner, admissionVars, coreVars, ledgerVars, otherVars>>

ReplaceInnerUnlocked(t) ==
    /\ sup_pc[t] = "replace"
    /\ inner' = inner + 1
    /\ broken' = FALSE
    /\ recycles' = recycles + 1
    /\ call_count' = 0
    /\ count_guard' = NoCaller
    /\ sup_pc' = [sup_pc EXCEPT ![t] = "increment"]
    /\ UNCHANGED <<inner_guard, exchange, calls, returned, lost, admissionVars, coreVars, ledgerVars, otherVars>>

\* check_recycle: self.inner.lock(), *inner_guard = new_inner, *count = 0,
\* then both guards are dropped
ReplaceInner(t) ==
    /\ sup_pc[t] = "replace"
    /\ inner_guard = NoCaller
    /\ inner' = inner + 1
    /\ broken' = FALSE
    /\ recycles' = recycles + 1
    /\ call_count' = 0
    /\ count_guard' = NoCaller
    /\ sup_pc' = [sup_pc EXCEPT ![t] = "increment"]
    /\ UNCHANGED <<inner_guard, exchange, calls, returned, lost, admissionVars, coreVars, ledgerVars, otherVars>>

\* call_mcp: self.call_count.lock(), *count += 1, Ok(response)
Increment(t) ==
    /\ sup_pc[t] = "increment"
    /\ count_guard = NoCaller
    /\ call_count' = call_count + 1
    /\ call_mcp_returns(t, TRUE)
    /\ UNCHANGED <<inner_guard, count_guard, exchange, broken, calls, recycles,
                   inner, admissionVars, coreVars, ledgerVars, otherVars>>

InitSupervisor ==
    /\ sup_pc = [t \in Callers |-> "idle"]
    /\ inner_guard = NoCaller
    /\ count_guard = NoCaller
    /\ exchange = [t \in Callers |-> NoExchange]
    /\ broken = FALSE
    /\ calls = 0
    /\ returned = 0
    /\ lost = 0
    /\ recycles = 0

\* One step of caller t
SupervisorStep(t) ==
    \/ \E forward \in BOOLEAN : CallMcp(t, forward)
    \/ LockInner(t)
    \/ \E ok \in BOOLEAN : WriteRequest(t, ok)
    \/ \E eof \in BOOLEAN : ReadReply(t, eof)
    \/ CheckRecycle(t)
    \/ \E ok \in BOOLEAN : SpawnProcess(t, ok)
    \/ ReplaceInner(t)
    \/ Increment(t)

\* Callers on several threads
NextSupervisor == \E t \in Callers : SupervisorStep(t)

\* One caller only: main's stderr reader loop
NextSequential == SupervisorStep(1)

\* A step of caller t inside call_mcp: a thread that can run does run, and
\* the executor answers (or closes its stdout) when asked
CallerProgress(t) ==
    \/ LockInner(t)
    \/ \E ok \in BOOLEAN : WriteRequest(t, ok)
    \/ \E eof \in BOOLEAN : ReadReply(t, eof)
    \/ CheckRecycle(t)
    \/ \E ok \in BOOLEAN : SpawnProcess(t, ok)
    \/ ReplaceInner(t)
    \/ Increment(t)

-----------------------------------------------------------------------------
(* Part D: the audit ledger of core: one actor thread and one client *)

MaxLedgerCalls == 4
MaxTicks == 1
QueueCapacity == 2       \* mpsc::channel(10000), scaled down
DaysWidth == 3           \* bit width standing for the 64 bits of days: u64
MaxSpan == 2             \* largest |days| chrono accepts, scaled down

SECONDS_PER_DAY == 86400

NoWait == [op |-> "<none>"]
NoCall == [op |-> "<none>", n |-> 0]

\* Arguments the client passes to archive_older_than
DaysArgs == {0, 1, 3, 2^DaysWidth - 1}

\* What may go wrong in one actor turn: nothing, an SQL statement, File::create
\* of the archive file, or the writeln! calls into it
Faults == {"none", "sql", "create", "write"}

ActorGone == actor \in {"open_failed", "write_failed", "panicked"}

\* days as i64
as_i64(days) == IF days >= 2^(DaysWidth - 1) THEN days - 2^DaysWidth ELSE days

\* Result of an API call that completed
Finished(op, res, val, k) ==
    [op |-> op, res |-> res, val |-> val, k |-> k, n |-> last.n + 1]

\* The receiver is dropped: queued messages are discarded, and the oneshot
\* sender inside a queued request goes with them, which its awaiting client
\* observes as InvalidQuery.
drop_receiver_keeping_waiters ==
    /\ queue' = <<>>
    /\ UNCHANGED <<waiting, last>>

drop_receiver ==
    /\ queue' = <<>>
    /\ waiting' = NoWait
    /\ last' = IF waiting = NoWait THEN last
               ELSE Finished(waiting.op, "InvalidQuery", 0, waiting.k)

\* The spawn_blocking closure up to "Actor started"
ActorStart(ok) ==
    /\ actor = "starting"
    /\ IF ok
       THEN actor' = "running" /\ UNCHANGED <<queue, waiting, last>>
       ELSE actor' = "open_failed" /\ drop_receiver
    /\ UNCHANGED <<table, next_id, cold, now, accepted, archives,
                   engineVars, coreVars, supVars, otherVars>>

\* Wall-clock time passes
Tick ==
    /\ now < MaxTicks * SECONDS_PER_DAY
    /\ now' = now + SECONDS_PER_DAY
    /\ UNCHANGED <<queue, actor, table, next_id, cold, waiting, last, accepted,
                   archives, engineVars, coreVars, supVars, otherVars>>

try_send_lossy(msg) ==
    IF ActorGone THEN "Closed"
    ELSE IF Len(queue) >= QueueCapacity THEN "Ok"
    ELSE "Ok"

\* tx.try_send: the outcome for the channel as it is
try_send(msg) ==
    IF ActorGone THEN "Closed"
    ELSE IF Len(queue) >= QueueCapacity THEN "Full"
    ELSE "Ok"

Entry(i) == [call |-> last.n + 1, i |-> i]

\* Ledger::append: tx.send(..).await; with the queue full the call waits
append ==
    /\ waiting = NoWait
    /\ last.n < MaxLedgerCalls
    /\ ActorGone \/ Len(queue) < QueueCapacity
    /\ IF ActorGone
       THEN /\ last' = Finished("append", "InvalidQuery", 0, accepted)
            /\ UNCHANGED <<queue, accepted>>
       ELSE /\ queue' = Append(queue, [msg |-> "Append", entries |-> <<Entry(1)>>])
            /\ accepted' = accepted + 1
            /\ last' = Finished("append", "Ok", 0, accepted + 1)
    /\ UNCHANGED <<actor, table, next_id, cold, now, waiting, archives,
                   engineVars, coreVars, supVars, otherVars>>

\* Ledger::append_non_blocking
append_non_blocking ==
    /\ waiting = NoWait
    /\ last.n < MaxLedgerCalls
    /\ LET msg == [msg |-> "Append", entries |-> <<Entry(1)>>]
           r == try_send(msg)
       IN  /\ queue' = IF ~ActorGone /\ Len(queue) < QueueCapacity
                       THEN Append(queue, msg) ELSE queue
           /\ accepted' = IF r = "Ok" THEN accepted + 1 ELSE accepted
           /\ last' = Finished("append_non_blocking",
                               CASE r = "Ok" -> "Ok"
                                 [] r = "Full" -> "Backpressure"
                                 [] OTHER -> "InvalidQuery",
                               0, accepted')
    /\ UNCHANGED <<actor, table, next_id, cold, now, waiting, archives,
                   engineVars, coreVars, supVars, otherVars>>

\* Ledger::append_batch with two entries
append_batch ==
    /\ waiting = NoWait
    /\ last.n < MaxLedgerCalls
    /\ ActorGone \/ Len(queue) < QueueCapacity
    /\ IF ActorGone
       THEN /\ last' = Finished("append_batch", "InvalidQuery", 0, accepted)
            /\ UNCHANGED <<queue, accepted>>
       ELSE /\ queue' = Append(queue, [msg |-> "AppendBatch",
                                       entries |-> <<Entry(1), Entry(2)>>])
            /\ accepted' = accepted + 2
            /\ last' = Finished("append_batch", "Ok", 0, accepted + 2)
    /\ UNCHANGED <<actor, table, next_id, cold, now, waiting, archives,
                   engineVars, coreVars, supVars, otherVars>>

\* Ledger::count, up to rx.await
count ==
    /\ waiting = NoWait
    /\ last.n < MaxLedgerCalls
    /\ ActorGone \/ Len(queue) < QueueCapacity
    /\ IF ActorGone
       THEN /\ last' = Finished("count", "InvalidQuery", 0, accepted)
            /\ UNCHANGED <<queue, waiting>>
       ELSE /\ queue' = Append(queue, [msg |-> "Query"])
            /\ waiting' = [op |-> "count", k |-> accepted]
            /\ UNCHANGED last
    /\ UNCHANGED <<actor, table, next_id, cold, now, accepted, archives,
                   engineVars, coreVars, supVars, otherVars>>

\* Ledger::archive_older_than, up to rx.await
archive_older_than(days) ==
    /\ waiting = NoWait
    /\ last.n < MaxLedgerCalls
    /\ ActorGone \/ Len(queue) < QueueCapacity
    /\ IF ActorGone
       THEN /\ last' = Finished("archive", "InvalidQuery", 0, accepted)
            /\ UNCHANGED <<queue, waiting>>
       ELSE /\ queue' = Append(queue, [msg |-> "Archive", days |-> days])
            /\ waiting' = [op |-> "archive", k |-> accepted]
            /\ UNCHANGED last
    /\ UNCHANGED <<actor, table, next_id, cold, now, accepted, archives,
                   engineVars, coreVars, supVars, otherVars>>

\* Rows insert_one / insert_batch add for a message's entries
new_rows(entries) ==
    {[id |-> next_id + i - 1, ts |-> now, entry |-> entries[i]] :
        i \in 1..Len(entries)}

insert_nothing(entries) ==
    /\ UNCHANGED table
    /\ next_id' = next_id + Len(entries)

\* insert_one, and insert_batch's committed transaction
insert(entries) ==
    /\ table' = table \cup new_rows(entries)
    /\ next_id' = next_id + Len(entries)

\* The reply sent on the oneshot channel reaches the awaiting client
reply(res, val) ==
    /\ waiting' = NoWait
    /\ last' = Finished(waiting.op, res, val, waiting.k)

\* perform_archive's cutoff: Utc::now() - Duration::days(days as i64)
timestamp_cutoff(days) == now - as_i64(days) * SECONDS_PER_DAY

\* TRUE when Duration::days or the DateTime subtraction panics
cutoff_panics(days) == as_i64(days) > MaxSpan \/ as_i64(days) < -MaxSpan

\* One turn of the actor's while-let loop: blocking_recv and the match arm
ActorStep(fault) ==
    /\ actor = "running"
    /\ queue # <<>>
    /\ LET m == Head(queue) IN
       CASE m.msg \in {"Append", "AppendBatch"} ->
              IF fault = "sql"
              THEN /\ actor' = "write_failed"
                   /\ drop_receiver
                   /\ UNCHANGED <<table, next_id, cold, archives>>
              ELSE /\ insert(m.entries)
                   /\ queue' = Tail(queue)
                   /\ UNCHANGED <<actor, cold, archives, waiting, last>>
         [] m.msg = "Query" ->
              /\ queue' = Tail(queue)
              /\ IF fault = "sql"
                 THEN reply("SqlError", 0)
                 ELSE reply("Ok", Cardinality(table))
              /\ UNCHANGED <<actor, table, next_id, cold, archives>>
         [] m.msg = "Archive" ->
              LET cutoff == timestamp_cutoff(m.days)
                  to_archive == {r \in table : r.ts < cutoff}
              IN  IF cutoff_panics(m.days)
                  THEN /\ actor' = "panicked"
                       /\ drop_receiver
                       /\ UNCHANGED <<table, next_id, cold, archives>>
                  ELSE /\ queue' = Tail(queue)
                       /\ archives' = archives + 1
                       /\ UNCHANGED <<actor, next_id>>
                       /\ IF fault = "sql"
                          THEN reply("SqlError", 0) /\ UNCHANGED <<table, cold>>
                          ELSE IF to_archive = {}
                          THEN reply("Ok", 0) /\ UNCHANGED <<table, cold>>
                          ELSE IF fault = "create"
                          THEN reply("SqlError", 0) /\ UNCHANGED <<table, cold>>
                          ELSE /\ cold' = [cold EXCEPT ![now] =
                                             IF fault = "write" THEN {} ELSE to_archive]
                               /\ table' = table \ to_archive
                               /\ reply("Ok", Cardinality(to_archive))
    /\ UNCHANGED <<now, accepted, engineVars, coreVars, supVars, otherVars>>

InitLedger ==
    /\ queue = <<>>
    /\ actor = "starting"
    /\ table = {}
    /\ next_id = 1
    /\ cold = [t \in {i * SECONDS_PER_DAY : i \in 0..(MaxTicks + 1)} |-> {}]
    /\ now = 0
    /\ waiting = NoWait
    /\ last = NoCall
    /\ accepted = 0
    /\ archives = 0

NextLedger ==
    \/ \E ok \in BOOLEAN : ActorStart(ok)
    \/ Tick
    \/ append
    \/ append_non_blocking
    \/ append_batch
    \/ count
    \/ \E days \in DaysArgs : archive_older_than(days)
    \/ \E fault \in Faults : ActorStep(fault)

-----------------------------------------------------------------------------
(* Part E: functions called on their own.  fcall records the last call. *)

MaxAtoms == 3

NoFcall == [fn |-> "<none>"]

Called(fn, arg, ret) == [fn |-> fn, arg |-> arg, ret |-> ret]

RECURSIVE SeqsUpTo(_, _)
SeqsUpTo(S, n) ==
    IF n = 0 THEN {<<>>}
    ELSE LET shorter == SeqsUpTo(S, n - 1)
         IN  shorter \cup {Append(q, x) : q \in shorter, x \in S}

Range(q) == {q[i] : i \in DOMAIN q}

(* ledger.rs, scrub_secrets.  A metadata string is a tuple of atoms, each a  *)
(* run of characters of one lexical class of SECRET_PATTERNS; the string is  *)
(* the atoms written one after the other.                                    *)
KeyNames == {"password"}           \* (?i)(api_key|token|secret|password|key)
Assigns == {"="}                   \* ['"]?\s*[:=]\s*['"]?
Words == {"note", "hunter2"}       \* [\w\d]+ that is no key name
SkTokens == {"sk-live0123456789abcdefgh"}   \* sk-[a-zA-Z0-9]{20,}
SkRest == "-live0123456789abcdefgh"  \* an sk- token after [\w\d]+ has taken "sk"
REDACTED == ": [REDACTED]"

Atoms == KeyNames \cup Assigns \cup Words \cup SkTokens
Metadata == SeqsUpTo(Atoms, MaxAtoms) \ {<<>>}

\* Length of the longest prefix of q made of [\w\d] atoms (greedy +)
RECURSIVE WordRun(_)
WordRun(q) ==
    IF q # <<>> /\ Head(q) \in Words \cup KeyNames THEN 1 + WordRun(Tail(q)) ELSE 0

\* SECRET_PATTERNS[0].replace_all(meta, "$1: [REDACTED]")
RECURSIVE replace_assignments(_)
replace_assignments(q) ==
    IF q = <<>> THEN <<>>
    ELSE IF /\ Len(q) >= 3
            /\ q[1] \in KeyNames
            /\ q[2] \in Assigns
            /\ q[3] \in Words \cup KeyNames \cup SkTokens
    THEN LET after == SubSeq(q, 3 + WordRun(SubSeq(q, 3, Len(q))), Len(q))
         IN  IF after # <<>> /\ Head(after) \in SkTokens
             THEN <<q[1], REDACTED, SkRest>> \o replace_assignments(Tail(after))
             ELSE <<q[1], REDACTED>> \o replace_assignments(after)
    ELSE <<Head(q)>> \o replace_assignments(Tail(q))

\* SECRET_PATTERNS[1].replace_all(meta, "$1: [REDACTED]"): group 1 is the
\* whole match, so the replacement begins with the matched text
RECURSIVE replace_sk_tokens(_)
replace_sk_tokens(q) ==
    IF q = <<>> THEN <<>>
    ELSE IF Head(q) \in SkTokens
    THEN LET n == WordRun(Tail(q))
         IN  SubSeq(q, 1, 1 + n) \o <<REDACTED>>
                 \o replace_sk_tokens(SubSeq(q, 2 + n, Len(q)))
    ELSE <<Head(q)>> \o replace_sk_tokens(Tail(q))

scrub_secrets(meta) == replace_sk_tokens(replace_assignments(meta))

\* append, append_non_blocking, append_batch: let safe_entry = scrub_secrets(entry)
ScrubSecrets(meta) ==
    /\ fcall' = Called("scrub_secrets", meta, scrub_secrets(meta))
    /\ UNCHANGED <<engineVars, coreVars, supVars, ledgerVars, orchVars, busVars>>

(* risk_scorer.rs *)

\* Commands handed to score_command
Commands ==
    {<<"e","c","h","o">>,
     <<"c","u","r","l"," ","x","|"," ","s","h">>,
     <<"w","g","e","t"," ","x","|"," ","b","a","s","h">>,
     <<"c","u","r","l"," ","a",".","s","h">>,
     <<"w","g","e","t"," ","a",".","p","y">>,
     <<"C","U","R","L"," ","x">>,
     <<"c","h","m","o","d"," ","7","7","7"," ","x">>,
     <<"c","h","m","o","d"," ","-","R"," ","7","7","7"," ","x">>,
     <<"n","c"," ","x">>,
     <<"n","e","t","c","a","t">>,
     <<"t","a","r"," ","-","c","f"," ","x">>,
     <<"t","a","r"," ","x">>}

\* RiskScorer::score_with_heuristics("execute_command", {"command": c})
ScoreCommand(c) ==
    /\ fcall' = Called("score_command", c,
                       score_with_heuristics("execute_command", CommandArgs(c)))
    /\ UNCHANGED <<engineVars, coreVars, supVars, ledgerVars, orchVars, busVars>>

\* RiskScorer::score_intent; model is the outcome of score_with_model
ScoreIntent(r, model) ==
    /\ r.wf
    /\ fcall' = Called("score_intent",
                       [method |-> tool_name(r), params |-> tool_args(r), model |-> model],
                       score_intent(tool_name(r), tool_args(r), model))
    /\ UNCHANGED <<engineVars, coreVars, supVars, ledgerVars, orchVars, busVars>>

(* governance.rs and keyring.rs on file text.  The pre-trailer body is a   *)
(* tuple of characters; " " stands for whitespace.                          *)

\* updated_toml of approve_candidate, step 4 (toml::to_string ends a line)
Bodies == {<<"a","=","1"," ">>, <<"p","=","a">>}

BodyChars == {"a", "=", "1", " "}

\* Every text one edit away from body: a character replaced, inserted or removed
Edits(body) ==
    {[body EXCEPT ![i] = c] : i \in DOMAIN body, c \in BodyChars}
    \cup {SubSeq(body, 1, i) \o <<c>> \o SubSeq(body, i + 1, Len(body)) :
             i \in 0..Len(body), c \in BodyChars}
    \cup {SubSeq(body, 1, i - 1) \o SubSeq(body, i + 1, Len(body)) : i \in DOMAIN body}

\* approve_candidate steps 4-6 followed by verify_mandate_signature on the
\* file after its pre-trailer body became text; delims counts the trailer
\* delimiters in the file (2 once the edit pasted one into the body)
VerifyMandateSignature(body, text, delims) ==
    LET content_trimmed == Trim(body)
        written == [SignedFile(content_trimmed, SovereignKey) EXCEPT !.delims = delims]
        original_content == Trim(text)
    IN  /\ fcall' = Called("verify_mandate_signature",
                           [signed |-> content_trimmed, body |-> text, delims |-> delims],
                           verify_mandate_signature([written EXCEPT !.mandate = original_content]))
        /\ UNCHANGED <<engineVars, coreVars, supVars, ledgerVars, orchVars, busVars>>

\* AeonKeyring::verify(message, &AeonKeyring::sign(signed))
KeyringVerify(signed, message) ==
    /\ fcall' = Called("verify", [signed |-> signed, message |-> message],
                       verify(SovereignKey, message, sign(SovereignKey, signed)))
    /\ UNCHANGED <<engineVars, coreVars, supVars, ledgerVars, orchVars, busVars>>

(* The operator's side of governance: candidates are placed and signed *)

\* Mandates an operator drafts for stem n
Drafts(n) ==
    {Mandate(n, "1.0.0", <<"did:aeon", n, "1.0.0", "draft">>, {"NET"}, {}),
     Mandate(n, "1.1.0", compute_did(n, "1.1.0"), {"FS_WRITE"}, {})}

\* The operator moves a draft into candidates/
PlaceCandidate(n, m) ==
    /\ candidates' = [candidates EXCEPT ![n] = UnsignedFile(m)]
    /\ UNCHANGED <<mandates, pulse_pc, pulse_todo, running, spawned, host_pc, host_ret,
                   drops, fcall, engineVars, supVars, ledgerVars, orchVars, busVars>>

aeon_sign_keeping_candidate(name, fault) ==
    /\ IF candidates[name] = NoFile \/ fault = "load"
       THEN /\ fcall' = Called("approve_candidate", name, "err")
            /\ UNCHANGED <<mandates, candidates>>
       ELSE LET m == candidates[name].mandate
                updated == [m EXCEPT !.did = <<"did:aeon", m.agent_id, m.version, SovereignKey>>]
            IN  /\ mandates' = [mandates EXCEPT ![name] = SignedFile(updated, SovereignKey)]
                /\ UNCHANGED candidates
                /\ fcall' = Called("approve_candidate", name,
                                   IF fault = "remove" THEN "err" ELSE "ok")
    /\ UNCHANGED <<pulse_pc, pulse_todo, running, spawned, host_pc, host_ret, drops,
                   engineVars, supVars, ledgerVars, orchVars, busVars>>

\* "aeon sign <name>": approve_candidate with its result.  fault: "load" when
\* the keyring, the read or the TOML parse fails, "remove" when fs::remove_file
\* fails after the mandate was written.
aeon_sign(name, fault) ==
    /\ IF candidates[name] = NoFile \/ fault = "load"
       THEN /\ fcall' = Called("approve_candidate", name, "err")
            /\ UNCHANGED <<mandates, candidates>>
       ELSE LET m == candidates[name].mandate
                updated == [m EXCEPT !.did = <<"did:aeon", m.agent_id, m.version, SovereignKey>>]
            IN  /\ mandates' = [mandates EXCEPT ![name] = SignedFile(updated, SovereignKey)]
                /\ IF fault = "remove"
                   THEN /\ UNCHANGED candidates
                        /\ fcall' = Called("approve_candidate", name, "err")
                   ELSE /\ candidates' = [candidates EXCEPT ![name] = NoFile]
                        /\ fcall' = Called("approve_candidate", name, "ok")
    /\ UNCHANGED <<pulse_pc, pulse_todo, running, spawned, host_pc, host_ret, drops,
                   engineVars, supVars, ledgerVars, orchVars, busVars>>

NextGovernance ==
    \/ \E n \in Names : \E m \in Drafts(n) : PlaceCandidate(n, m)
    \/ \E name \in Names : \E fault \in {"none", "load", "remove"} : aeon_sign(name, fault)

(* capability.rs.  A capability is a tuple: its variant, then its fields. *)

NetworkDeny == <<"NetworkDeny">>

CapabilitySamples ==
    {<<"FileWrite", "/tmp/a">>, <<"FileReadPattern", "/tmp/*">>,
     <<"NetworkConnect", "host", "443">>, <<"ProcessSpawn", "sh">>, NetworkDeny}

\* Every value of struct CapabilityManifest over the samples (the limits are
\* read by no check)
Manifests ==
    [capabilities : SUBSET CapabilitySamples, allow_network : BOOLEAN]

BuildMethods == {"write_file", "read_file", "execute_command", "list_directory", "delete_file"}
BuildPaths == {Absent, "/tmp/a"}

\* CapabilityManifest::build
build(method, path) ==
    CASE method = "write_file" ->
           [capabilities |-> (IF path # Absent THEN {<<"FileWrite", path>>} ELSE {})
                                 \cup {NetworkDeny},
            allow_network |-> FALSE]
      [] method = "read_file" ->
           [capabilities |-> (IF path # Absent THEN {<<"FileRead", path>>} ELSE {})
                                 \cup {NetworkDeny},
            allow_network |-> FALSE]
      [] method = "execute_command" ->
           [capabilities |-> {<<"FileReadPattern", "/tmp/*">>, <<"FileReadPattern", "/home/*">>},
            allow_network |-> TRUE]
      [] method = "list_directory" ->
           [capabilities |-> (IF path # Absent THEN {<<"FileReadPattern", path, "/*">>} ELSE {})
                                 \cup {NetworkDeny},
            allow_network |-> FALSE]
      [] OTHER ->
           [capabilities |-> {NetworkDeny}, allow_network |-> FALSE]

allows_network_by_flag(manifest) == manifest.allow_network

\* CapabilityManifest::allows_network
allows_network(manifest) ==
    manifest.allow_network /\ ~(\E cap \in manifest.capabilities : cap = NetworkDeny)

\* allows_network() on a manifest value
AllowsNetwork(manifest) ==
    /\ fcall' = Called("allows_network", [method |-> Absent, manifest |-> manifest],
                       allows_network(manifest))
    /\ UNCHANGED <<engineVars, coreVars, supVars, ledgerVars, orchVars, busVars>>

\* CapabilityManifest::build(method, params).allows_network()
BuildManifest(method, path) ==
    /\ fcall' = Called("allows_network", [method |-> method, manifest |-> build(method, path)],
                       allows_network(build(method, path)))
    /\ UNCHANGED <<engineVars, coreVars, supVars, ledgerVars, orchVars, busVars>>

(* server.rs of aeon-engine and of core: GET /telemetry *)

NoSecret == "<unset>"     \* TELEMETRY_SECRET is not in the environment
NoToken == "<absent>"     \* the request has no token query parameter
Secrets == {NoSecret, "s3cret"}
Tokens == {NoToken, "s3cret", "guess", ""}

\* aeon-engine server.rs telemetry_handler
telemetry_handler(secret, token) ==
    IF secret # NoSecret /\ ~(token # NoToken /\ token = secret)
    THEN "UNAUTHORIZED"
    ELSE "upgrade"

\* core server.rs telemetry_handler: AppState has no secret
core_telemetry_handler(token) == "upgrade"

\* A client asks one of the two servers for a websocket upgrade; handle_socket
\* (signals out, HALT and SIGNAL in) runs only on "upgrade"
TelemetryUpgrade(server, secret, token) ==
    /\ fcall' = Called("telemetry_handler",
                       [server |-> server, secret |-> secret, token |-> token],
                       IF server = "core" THEN core_telemetry_handler(token)
                       ELSE telemetry_handler(secret, token))
    /\ UNCHANGED <<engineVars, coreVars, supVars, ledgerVars, orchVars, busVars>>

(* main.rs, check_intent on requests of every shape *)

PolicySamples ==
    {r \in Requests : r.wf}
    \cup {Wrapped("execute_command", CommandArgs(c)) :
            c \in {<<"r","m">>, <<"r","m","d","i","r"," ","x">>,
                   <<"l","s"," ","r","m">>, <<"e","c","h","o">>}}
    \cup {Wrapped("read_file", PathArgs(PathEtc)),
          Wrapped("execute_command", PathArgs(PathEtc)),
          Wrapped(Absent, PathArgs(PathEtc)),
          Direct("execute_command", CommandArgs(<<"r","m"," ","x">>))}

\* ResidentSubagent::check_intent(json_rpc) on a line handle_request parsed
CheckIntent(r) ==
    /\ fcall' = Called("check_intent", r,
                       IF check_intent_denies(r) THEN "Err" ELSE "Ok")
    /\ UNCHANGED <<engineVars, coreVars, supVars, ledgerVars, orchVars, busVars>>

InitOther == fcall = NoFcall

NextFunctions ==
    \/ \E meta \in Metadata : ScrubSecrets(meta)
    \/ \E c \in Commands : ScoreCommand(c)
    \/ \E r \in Requests : \E model \in ModelOutcomes : ScoreIntent(r, model)
    \/ \E body \in Bodies : \E text \in Edits(Trim(body)) : \E delims \in {1, 2} :
          VerifyMandateSignature(body, text, delims)
    \/ \E body \in Bodies : \E text \in Edits(body) : KeyringVerify(body, text)
    \/ \E manifest \in Manifests : AllowsNetwork(manifest)
    \/ \E method \in BuildMethods : \E path \in BuildPaths : BuildManifest(method, path)
    \/ \E server \in {"aeon-engine", "core"} : \E secret \in Secrets : \E token \in Tokens :
          TelemetryUpgrade(server, secret, token)
    \/ \E r \in PolicySamples : CheckIntent(r)

-----------------------------------------------------------------------------
(* Part F: the main loop of core (main.rs), after the initial pulse.  A     *)
(* pulse is one step of the loop: its cells run inside spawn_instance.      *)

MaxLoopPulses == 2
CommandCapacity == 2       \* mpsc::channel(100), scaled down

\* A mandates/*.toml file toml::from_str cannot parse
MalformedFile == [mandate |-> "<malformed>"]

\* Files placed in mandates/ while the loop runs, under these stems
ChangedNames == {"beta"}
ChangedFiles(n) ==
    LET good == Mandate(n, "1.0.0", compute_did(n, "1.0.0"), {"FS_WRITE"}, {PathTmp})
        forged == [good EXCEPT !.did = <<"did:aeon", n, "1.0.0", ForeignKey>>]
        other == [good EXCEPT !.permissions = {}]
    IN  {SignedFile(good, SovereignKey),
         UnsignedFile(good),
         [SignedFile(good, SovereignKey) EXCEPT !.sig = sign(SovereignKey, other)],
         SignedFile(forged, SovereignKey),
         MalformedFile}

\* GovernanceDecision {decision, risk_level}, or Err of assess_governance
NoCheck == <<"<none>">>
NoSignal == "<none>"
CheckFailed == <<"Err">>
Critical == <<"NON_COMPLIANT", "CRITICAL">>
Decisions == {<<"COMPLIANT", "LOW">>, <<"NON_COMPLIANT", "HIGH">>, Critical, CheckFailed}

NoPulse == [entered |-> FALSE, spawned |-> {}, outcome |-> "<none>"]

\* Orders in which fs::read_dir may yield the entries S
Orders(S) ==
    {q \in SeqsUpTo(S, Cardinality(S)) : Len(q) = Cardinality(S) /\ Range(q) = S}

\* snapshot_territory copies something: a territory entry is an existing file
snapshot_territory(m) == PathTmp \in m.territory

\* pulse(): the loop over mandates/*.toml from entry i of order on.  traps:
\* the cells whose _start fails.  sp, cp: spawned and copied so far.
RECURSIVE pulse_loop(_, _, _, _, _)
pulse_loop(order, i, traps, sp, cp) ==
    IF i > Len(order)
    THEN [entered |-> TRUE, spawned |-> sp, copied |-> cp, outcome |-> "Ok"]
    ELSE LET n == order[i]
             f == mandates[n]
         IN  IF f = MalformedFile
             THEN [entered |-> TRUE, spawned |-> sp, copied |-> cp, outcome |-> "panic"]
             ELSE IF ~pulse_loads(f)
             THEN pulse_loop(order, i + 1, traps, sp, cp)
             ELSE LET cp2 == IF snapshot_territory(f.mandate) THEN cp \cup {n} ELSE cp
                  IN  IF f.mandate.agent_id = "repair_cell"
                      THEN pulse_loop(order, i + 1, traps, sp, cp2)
                      ELSE IF n \in traps
                      THEN [entered |-> TRUE, spawned |-> sp \cup {n}, copied |-> cp2,
                            outcome |-> "Err"]
                      ELSE pulse_loop(order, i + 1, traps, sp \cup {n}, cp2)

\* pulse() as a whole, with a passing health check (the emergency path to
\* repair_cell is in Part B).  blocked: AEON_SECURE is set and a spec lacks
\* its signature.
pulse(blocked, order, traps) ==
    IF blocked
    THEN [entered |-> FALSE, spawned |-> {}, copied |-> {}, outcome |-> "Ok"]
    ELSE pulse_loop(order, 1, traps, {}, {})

\* Someone outside the orchestrator writes a file into mandates/: the
\* watcher sends an event
ExternalChange(n, f) ==
    /\ drops < MaxDrops
    /\ drops' = drops + 1
    /\ mandates' = [mandates EXCEPT ![n] = f]
    /\ watch_rx' = watch_rx + 1
    /\ UNCHANGED <<candidates, pulse_pc, pulse_todo, running, spawned, host_pc, host_ret,
                   loop_pc, is_halted, pending_pulse, quiet, cmd_rx, tx_telemetry,
                   last_check, archive, last_pulse, loop_pulses,
                   engineVars, supVars, ledgerVars, fcall, busVars>>

\* server.rs handle_socket: a websocket client sends HALT or SIGNAL, and
\* cmd_tx.send(..).await returns once the channel has room
ServerCommand(c) ==
    /\ Len(cmd_rx) < CommandCapacity
    /\ cmd_rx' = Append(cmd_rx, c)
    /\ UNCHANGED <<loop_pc, is_halted, pending_pulse, quiet, watch_rx, tx_telemetry,
                   last_check, archive, last_pulse, loop_pulses,
                   engineVars, coreVars, supVars, ledgerVars, fcall, busVars>>

\* One turn of "while let Ok(cmd) = cmd_rx.try_recv()".  decision: what
\* assess_governance returns for an injected signal.
DrainCommand(decision) ==
    /\ loop_pc = "drain"
    /\ cmd_rx # <<>>
    /\ cmd_rx' = Tail(cmd_rx)
    /\ IF Head(cmd_rx) = "Halt"
       THEN /\ is_halted' = TRUE
            /\ tx_telemetry' = NoSignal
            /\ last_check' = NoCheck
       ELSE /\ last_check' = decision
            /\ IF decision = Critical
               THEN /\ is_halted' = TRUE
                    /\ tx_telemetry' = "GOVERNANCE_HALT"
               ELSE /\ tx_telemetry' = "USER_INJECTION"
                    /\ UNCHANGED is_halted
    /\ last_pulse' = NoPulse
    /\ UNCHANGED <<loop_pc, pending_pulse, quiet, watch_rx, archive,
                   loop_pulses,
                   engineVars, coreVars, supVars, ledgerVars, fcall, busVars>>

\* "if is_halted { sleep(500 ms); continue }".  passes: the two seconds since
\* the last file event run out during the sleep.
HaltedSleep(passes) ==
    /\ loop_pc = "drain"
    /\ cmd_rx = <<>>
    /\ is_halted
    /\ quiet' = (quiet \/ passes)
    /\ tx_telemetry' = NoSignal
    /\ last_check' = NoCheck
    /\ last_pulse' = NoPulse
    /\ UNCHANGED <<loop_pc, is_halted, pending_pulse, cmd_rx, watch_rx,
                   archive, loop_pulses,
                   engineVars, coreVars, supVars, ledgerVars, fcall, busVars>>

Heartbeat_ignoring_halt ==
    /\ loop_pc = "drain"
    /\ cmd_rx = <<>>
    /\ tx_telemetry' = "HEARTBEAT"
    /\ last_check' = NoCheck
    /\ loop_pc' = "poll"
    /\ last_pulse' = NoPulse
    /\ UNCHANGED <<is_halted, pending_pulse, quiet, cmd_rx, watch_rx,
                   archive, loop_pulses,
                   engineVars, coreVars, supVars, ledgerVars, fcall, busVars>>

\* cortex.heartbeat() and the HEARTBEAT broadcast
Heartbeat ==
    /\ loop_pc = "drain"
    /\ cmd_rx = <<>>
    /\ ~is_halted
    /\ tx_telemetry' = "HEARTBEAT"
    /\ last_check' = NoCheck
    /\ loop_pc' = "poll"
    /\ last_pulse' = NoPulse
    /\ UNCHANGED <<is_halted, pending_pulse, quiet, cmd_rx, watch_rx,
                   archive, loop_pulses,
                   engineVars, coreVars, supVars, ledgerVars, fcall, busVars>>

\* "if let Ok(res) = rx.try_recv()": at most one file event per iteration
PollWatcher ==
    /\ loop_pc = "poll"
    /\ loop_pc' = "trigger"
    /\ IF watch_rx > 0
       THEN /\ watch_rx' = watch_rx - 1
            /\ quiet' = FALSE
            /\ pending_pulse' = TRUE
            /\ tx_telemetry' = IF pending_pulse THEN NoSignal ELSE "COALESCENCE_START"
       ELSE /\ tx_telemetry' = NoSignal
            /\ UNCHANGED <<watch_rx, quiet, pending_pulse>>
    /\ last_check' = NoCheck
    /\ last_pulse' = NoPulse
    /\ UNCHANGED <<is_halted, cmd_rx, archive, loop_pulses,
                   engineVars, coreVars, supVars, ledgerVars, fcall, busVars>>

\* The pulse trigger check and the 100 ms sleep that ends the iteration.
\* generate_territory_map writes specs/metropolis_map.json, a watched
\* directory.
PulseTrigger(blocked, passes) ==
    /\ loop_pc = "trigger"
    /\ IF pending_pulse /\ quiet
       THEN /\ loop_pulses < MaxLoopPulses
            /\ \E order \in Orders({n \in Names : mandates[n] # NoFile}) :
               \E traps \in SUBSET {n \in Names : mandates[n] # NoFile} :
                  LET p == pulse(blocked, order, traps)
                  IN  /\ last_pulse' = [entered |-> p.entered, spawned |-> p.spawned,
                                        outcome |-> p.outcome]
                      /\ archive' = [n \in Names |->
                             IF n \in p.copied THEN archive[n] + 1 ELSE archive[n]]
                      /\ loop_pc' = IF p.outcome = "panic" THEN "panicked" ELSE "drain"
                      /\ tx_telemetry' = IF p.outcome = "panic" THEN NoSignal
                                         ELSE IF p.outcome = "Err" THEN "PULSE_FAILED"
                                         ELSE "PULSE"
            /\ pending_pulse' = FALSE
            /\ loop_pulses' = loop_pulses + 1
            /\ watch_rx' = IF blocked THEN watch_rx ELSE watch_rx + 1
       ELSE /\ loop_pc' = "drain"
            /\ tx_telemetry' = NoSignal
            /\ last_pulse' = NoPulse
            /\ UNCHANGED <<pending_pulse, loop_pulses, archive, watch_rx>>
    /\ quiet' = (quiet \/ passes)
    /\ last_check' = NoCheck
    /\ UNCHANGED <<is_halted, cmd_rx,
                   engineVars, coreVars, supVars, ledgerVars, fcall, busVars>>

InitOrchestrator ==
    /\ loop_pc = "drain"
    /\ is_halted = FALSE
    /\ pending_pulse = FALSE
    /\ quiet = FALSE
    /\ cmd_rx = <<>>
    /\ watch_rx = 0
    /\ tx_telemetry = NoSignal
    /\ last_check = NoCheck
    /\ archive = [n \in Names |-> 0]
    /\ last_pulse = NoPulse
    /\ loop_pulses = 0

NextOrchestrator ==
    \/ \E n \in ChangedNames : \E f \in ChangedFiles(n) : ExternalChange(n, f)
    \/ \E c \in {"Halt", "Inject"} : ServerCommand(c)
    \/ \E decision \in Decisions : DrainCommand(decision)
    \/ \E passes \in BOOLEAN : HaltedSleep(passes)
    \/ Heartbeat
    \/ PollWatcher
    \/ \E blocked \in BOOLEAN : \E passes \in BOOLEAN : PulseTrigger(blocked, passes)

-----------------------------------------------------------------------------
(* Part G: one websocket client of /telemetry (server.rs handle_socket of   *)
(* either server) and the senders on the broadcast channel.  Signals are    *)
(* numbered 1, 2, ... in the order they are sent.                           *)

TelemetryCapacity == 2     \* broadcast::channel(100), scaled down
MaxSignals == 6

\* tx.send(signal): the channel keeps the last TelemetryCapacity signals and
\* the sender never waits
Broadcast ==
    /\ broadcasts < MaxSignals
    /\ broadcasts' = broadcasts + 1
    /\ UNCHANGED <<cursor, forwarding, socket_open, delivered,
                   engineVars, coreVars, supVars, ledgerVars, fcall, orchVars>>

\* One turn of send_task's "while let Ok(signal) = rx.recv().await": recv
\* returns Err(Lagged) when the next signal of this receiver was overwritten
ForwardSignal ==
    /\ forwarding
    /\ cursor < broadcasts
    /\ IF broadcasts - cursor > TelemetryCapacity
       THEN /\ forwarding' = FALSE
            /\ cursor' = broadcasts - TelemetryCapacity
            /\ UNCHANGED delivered
       ELSE /\ cursor' = cursor + 1
            /\ delivered' = delivered \cup {cursor + 1}
            /\ UNCHANGED forwarding
    /\ UNCHANGED <<broadcasts, socket_open,
                   engineVars, coreVars, supVars, ledgerVars, fcall, orchVars>>

\* The client goes away: receiver.next() ends the command loop, send_task
\* is aborted
SocketClose ==
    /\ socket_open
    /\ socket_open' = FALSE
    /\ forwarding' = FALSE
    /\ UNCHANGED <<broadcasts, cursor, delivered,
                   engineVars, coreVars, supVars, ledgerVars, fcall, orchVars>>

InitTelemetry ==
    /\ broadcasts = 0
    /\ cursor = 0
    /\ forwarding = TRUE
    /\ socket_open = TRUE
    /\ delivered = {}

NextTelemetry ==
    \/ Broadcast
    \/ ForwardSignal
    \/ SocketClose

Init ==
    /\ InitEngine /\ InitCore /\ InitSupervisor /\ InitLedger /\ InitOther
    /\ InitOrchestrator /\ InitTelemetry

Next ==
    \/ \E r \in Requests : ReadLine(r)
    \/ StaticPolicy
    \/ \E m \in ModelOutcomes : RiskScoring(m)
    \/ ManifestAndAllow
    \/ \E ok \in BOOLEAN : CallWasmWrite(ok)
    \/ \E ok \in BOOLEAN : CallWasmRead(ok)
    \/ \E c \in {"Halt", "Inject"} : WsCommand(c)

Spec == Init /\ [][Next]_vars

SpecMandate == Init /\ [][NextMandate]_vars

SpecSupervisor == Init /\ [][NextSupervisor]_vars

SpecSequential == Init /\ [][NextSequential]_vars

SpecSupervisorLive ==
    Init /\ [][NextSupervisor]_vars /\ \A t \in Callers : WF_vars(CallerProgress(t))

SpecLedger == Init /\ [][NextLedger]_vars

SpecFunctions == Init /\ [][NextFunctions]_vars

SpecGovernance == Init /\ [][NextGovernance]_vars

SpecOrchestrator == Init /\ [][NextOrchestrator]_vars

SpecTelemetry == Init /\ [][NextTelemetry]_vars

-----------------------------------------------------------------------------
(* Claims about the admission pipeline (checked under Spec) *)

Last(q) == q[Len(q)]

ForwardedSeqs == {wasm_stdin[i].seq : i \in DOMAIN wasm_stdin}

SignalsOf(method, seq) ==
    {i \in DOMAIN telemetry : telemetry[i].method = method /\ telemetry[i].seq = seq}

\* A write_file intent (direct or wrapped) aimed at /etc or using '..'
SensitiveWrite(req) ==
    /\ req.wf
    /\ tool_name(req) = "write_file"
    /\ tool_args(req).path # AbsentStr
    /\ \/ StartsWith(tool_args(req).path, <<"/","e","t","c">>)
       \/ Contains(tool_args(req).path, <<".",".">>)

\* C1: a write_file intent, named directly or inside a tools/call wrapper,
\* whose path starts with /etc or contains '..' is never written to the
\* sandbox's stdin.
C1_SensitiveWriteNeverForwarded ==
    \A i \in DOMAIN wasm_stdin : ~SensitiveWrite(wasm_stdin[i].req)

\* C2: when an intent leaves risk scoring, a final score >= 0.8 ends the
\* admission with a denial, an INTENT_BLOCKED signal of phase RISK_ASSESSMENT
\* and nothing written to the sandbox, and a score < 0.8 lets it proceed;
\* no intent blocked at the risk phase is ever forwarded, and every forwarded
\* intent scored below 0.8.
C2_RiskStep ==
    (pc = "risk" /\ pc' # "risk") =>
        IF risk_score' >= 80
        THEN /\ pc' = "idle"
             /\ Len(telemetry') = Len(telemetry) + 1
             /\ Last(telemetry').method = "INTENT_BLOCKED"
             /\ Last(telemetry').phase = "RISK_ASSESSMENT"
             /\ Last(telemetry').seq = cur.seq
             /\ Len(responses') = Len(responses) + 1
             /\ Last(responses').seq = cur.seq
             /\ Last(responses').kind = "risk_denied"
             /\ wasm_stdin' = wasm_stdin
        ELSE /\ pc' = "manifest"
             /\ telemetry' = telemetry
             /\ responses' = responses

C2_History ==
    /\ \A i \in DOMAIN telemetry :
          /\ telemetry[i].method = "INTENT_BLOCKED" => telemetry[i].seq \notin ForwardedSeqs
          /\ telemetry[i].method = "INTENT_ALLOWED" => telemetry[i].risk_score < 80
    /\ \A s \in ForwardedSeqs : SignalsOf("INTENT_ALLOWED", s) # {}
    /\ pc \in {"manifest", "exec", "reply"} => risk_score < 80

C2_RiskThreshold == [][C2_RiskStep /\ C2_History']_vars

\* C2's case: one intent was denied at exactly 0.8 and another was forwarded
C2_Witness ==
    /\ \E i \in DOMAIN telemetry :
          /\ telemetry[i].phase = "RISK_ASSESSMENT"
          /\ telemetry[i].risk_score = 80
    /\ wasm_stdin # <<>>

AdmissionOutcomes ==
    {i \in DOMAIN responses :
        responses[i].kind \in {"reply", "policy_denied", "risk_denied"}}

LedgerStatus(kind) ==
    CASE kind = "reply" -> "SUCCESS"
      [] kind = "policy_denied" -> "BLOCKED:POLICY"
      [] kind = "risk_denied" -> "BLOCKED:RISK_ASSESSMENT"
      [] OTHER -> "FAILURE"

\* C3: once the admissions so far have reached their outcome, the ledger
\* holds exactly one row per admission, with the status of that outcome.
C3_OneLedgerRowPerAdmission ==
    pc = "idle" =>
        /\ Len(ledger) = Cardinality(AdmissionOutcomes)
        /\ \A k \in DOMAIN ledger :
              \E i \in AdmissionOutcomes :
                  ledger[k].status = LedgerStatus(responses[i].kind)

\* C4 as stated: INTENT_ALLOWED is on the telemetry channel only for an
\* intent whose sandbox exchange (P4) has already returned.
C4_AllowedOnlyAfterReply ==
    \A i \in DOMAIN telemetry :
        telemetry[i].method = "INTENT_ALLOWED" =>
            \E j \in DOMAIN responses :
                /\ responses[j].seq = telemetry[i].seq
                /\ responses[j].kind \in {"reply", "read_error"}

PhaseOrder ==
    {<<"idle", "policy">>, <<"policy", "risk">>, <<"risk", "manifest">>,
     <<"manifest", "exec">>, <<"exec", "reply">>,
     <<"policy", "idle">>, <<"risk", "idle">>, <<"exec", "idle">>, <<"reply", "idle">>}

\* C4 as amended: the phases of one admission run in the order static policy,
\* risk scoring, capability manifest, INTENT_ALLOWED broadcast, sandbox
\* exchange; INTENT_ALLOWED is sent after AUDIT_INTENT and before the request
\* is written to the sandbox, and a reply is returned only for a request that
\* was written.
C4_Step ==
    /\ pc' # pc => <<pc, pc'>> \in PhaseOrder
    /\ (telemetry' # telemetry /\ Last(telemetry').method = "INTENT_ALLOWED") =>
          /\ pc = "manifest"
          /\ cur.seq \notin ForwardedSeqs
          /\ SignalsOf("AUDIT_INTENT", cur.seq) # {}
          /\ SignalsOf("INTENT_BLOCKED", cur.seq) = {}
    /\ wasm_stdin' # wasm_stdin =>
          /\ pc = "exec"
          /\ Last(wasm_stdin').seq = cur.seq
          /\ SignalsOf("INTENT_ALLOWED", cur.seq) # {}
    /\ (responses' # responses /\ Last(responses').kind \in {"reply", "read_error"}) =>
          /\ pc = "reply"
          /\ cur.seq \in ForwardedSeqs

C4_AllowedBeforeSandbox == [][C4_Step]_vars

\* C4's case: INTENT_ALLOWED is out, the request is written, no reply yet
C4_Witness ==
    /\ pc = "reply"
    /\ SignalsOf("INTENT_ALLOWED", cur.seq) # {}
    /\ cur.seq \in ForwardedSeqs

\* C5: once a HALT has been accepted on the command channel, no intent read
\* after it gets a policy verdict, a risk score or a sandbox call.
C5_HaltRejectsLaterIntents ==
    halted_at # NoHalt =>
        /\ \A i \in DOMAIN telemetry :
              telemetry[i].seq > halted_at =>
                  telemetry[i].method \notin {"INTENT_BLOCKED", "INTENT_ALLOWED"}
        /\ \A i \in DOMAIN wasm_stdin : wasm_stdin[i].seq <= halted_at
        /\ cur.seq > halted_at => pc \notin {"risk", "manifest", "exec", "reply"}

C23_Verdicts(seq) == SignalsOf("INTENT_BLOCKED", seq) \cup SignalsOf("INTENT_ALLOWED", seq)

\* C23: for a request that parses, AUDIT_INTENT is sent first and then
\* exactly one of INTENT_BLOCKED and INTENT_ALLOWED; INTENT_BLOCKED is sent
\* exactly when the static policy or the risk threshold denied the intent.
C23_OneVerdictPerIntent ==
    /\ \A i \in DOMAIN telemetry :
          telemetry[i].method \in {"INTENT_BLOCKED", "INTENT_ALLOWED"} =>
              \E a \in SignalsOf("AUDIT_INTENT", telemetry[i].seq) : a < i
    /\ \A s \in 1..nreq :
          /\ Cardinality(SignalsOf("AUDIT_INTENT", s)) <= 1
          /\ Cardinality(C23_Verdicts(s)) <= 1
    /\ \A j \in DOMAIN responses :
          responses[j].kind # "invalid_json" =>
              /\ Cardinality(SignalsOf("AUDIT_INTENT", responses[j].seq)) = 1
              /\ Cardinality(C23_Verdicts(responses[j].seq)) = 1
              /\ SignalsOf("INTENT_BLOCKED", responses[j].seq) # {}
                    <=> responses[j].kind \in {"policy_denied", "risk_denied"}

\* C23's case: one intent denied by the static policy, another allowed
C23_Witness ==
    /\ \E j \in DOMAIN responses : responses[j].kind = "policy_denied"
    /\ \E j \in DOMAIN responses : responses[j].kind = "reply"
    /\ pc = "idle"

\* C24: every denial, by the static policy or by the risk threshold, is
\* answered with the JSON-RPC error code POLICY_VIOLATION.
C24_DenialCodeIsPolicyViolation ==
    \A j \in DOMAIN responses :
        responses[j].kind \in {"policy_denied", "risk_denied"} =>
            responses[j].code = POLICY_VIOLATION

\* C25: a line that is not well-formed JSON is answered with the code
\* PARSE_ERROR, and no signal, policy check, risk check or sandbox write
\* happens for it.
C25_ParseErrorCoded ==
    \A j \in DOMAIN responses :
        responses[j].kind = "invalid_json" =>
            /\ responses[j].code = PARSE_ERROR
            /\ \A i \in DOMAIN telemetry : telemetry[i].seq # responses[j].seq
            /\ responses[j].seq \notin ForwardedSeqs

-----------------------------------------------------------------------------
(* Claims about the mandate trust chain (checked under SpecMandate) *)

\* C6: the pulse loop spawns a cell from a file under mandates/ only if the
\* file carries the governance signature trailer and its signature verifies.
C6_SpawnRequiresVerifiedSignature ==
    spawned # NoSpawn /\ spawned.via = "pulse" =>
        /\ spawned.file.delims = 1
        /\ verify_mandate_signature(spawned.file) = "true"

\* C7: every mandate pulse spawns, the emergency repair path included, has
\* did = did:aeon:{agent_id}:{version}:{sovereign public key hex}.
C7_SpawnedDidIsSovereign ==
    spawned # NoSpawn =>
        spawned.file.mandate.did =
            <<"did:aeon", spawned.file.mandate.agent_id,
              spawned.file.mandate.version, SovereignKey>>

\* C8: a spawn_cell call returns 0 only if every permission the child asks
\* for is held by the parent, and then the child's file exists; a child that
\* asks for a permission the parent lacks gets 1 and mandates/ is left as it was.
C8_Step ==
    host_ret' # host_ret /\ host_ret'.fn = "spawn_cell" =>
        /\ host_ret'.ret = 0 =>
              /\ host_ret'.arg.permissions \subseteq running.permissions
              /\ mandates'[host_ret'.arg.agent_id] # NoFile
        /\ ~(host_ret'.arg.permissions \subseteq running.permissions) =>
              /\ host_ret'.ret = 1
              /\ mandates' = mandates

C8_Pending ==
    host_pc.op = "spawn_write" =>
        host_pc.child.permissions \subseteq running.permissions

C8_SpawnCellConservesPrivilege == [][C8_Step /\ C8_Pending']_vars

\* A parent allowed to divide was refused a child that asks for more than it holds
C8_Witness ==
    /\ host_ret.fn = "spawn_cell"
    /\ host_ret.ret = 1
    /\ "MITOSIS" \in running.permissions
    /\ mandates[host_ret.arg.agent_id] = NoFile
    /\ ~(host_ret.arg.permissions \subseteq running.permissions)

\* C9: spawn_cell's write never replaces a mandate that exists when it lands,
\* not even one a concurrent promotion created after the existence check.
C9_SpawnCellNeverOverwrites ==
    [][host_pc.op = "spawn_write" /\ host_pc'.op = "idle" /\ drops = 0 =>
          \/ mandates[host_pc.child.agent_id] = NoFile
          \/ mandates' = mandates]_vars

\* C10: with only promoted mandates on disk, write_file and replace_block on
\* a path inside mandates/ return failure and leave mandates/ as it was.
C10_HostWritesNeverTouchMandates ==
    [][/\ host_ret' # host_ret
       /\ drops = 0
       /\ host_ret'.fn \in {"write_file", "replace_block"}
       /\ host_ret'.arg.target \in Names
       => /\ host_ret'.ret = 1
          /\ mandates' = mandates]_vars

\* C11: no spawn_cell call that returns 0 leaves an unsigned file in
\* mandates/: the file it created is trailed by a signature block.
C11_SpawnCellLeavesSignedFile ==
    [][host_ret' # host_ret /\ host_ret'.fn = "spawn_cell" /\ host_ret'.ret = 0 =>
          /\ mandates'[host_ret'.arg.agent_id].marker
          /\ mandates'[host_ret'.arg.agent_id].delims = 1]_vars

-----------------------------------------------------------------------------
(* Claims about the sandbox supervisor *)

\* C12 (SpecSupervisor): at most one caller is between writing its request
\* and having read its reply, and while a caller waits for its reply the
\* executor in inner is still the one its request was written to.
C12_ExchangeSerialized ==
    /\ Cardinality({t \in Callers : sup_pc[t] \in {"write", "read"}}) <= 1
    /\ \A t \in Callers : sup_pc[t] = "read" => exchange[t] = inner

\* One caller awaits its reply while another is about to swap the executor
C12_Witness ==
    \E t \in Callers : \E u \in Callers :
        /\ sup_pc[t] = "read"
        /\ sup_pc[u] = "replace"
        /\ inner_guard = t

\* C13 (SpecSequential): right after the 50th call has returned the executor
\* has been replaced and the counter is 0.
C13_RecycledAfterThreshold ==
    sup_pc[1] = "idle" /\ returned + lost = RECYCLE_LIMIT =>
        recycles = 1 /\ call_count = 0

\* C14 (SpecSequential): once 51 calls have been made and the last has
\* returned, the executor changed exactly once and all 51 returned a reply.
C14_FiftyOneCallsOneRecycle ==
    sup_pc[1] = "idle" /\ calls = RECYCLE_LIMIT + 1 =>
        recycles = 1 /\ returned = RECYCLE_LIMIT + 1

\* C15 (SpecSequential): no request is written to an executor whose reply
\* stream has hit EOF: it is replaced before the next call is forwarded.
C15_NoWriteAfterEof ==
    \A t \in Callers : sup_pc[t] = "write" => ~broken

-----------------------------------------------------------------------------
(* Claims about the audit ledger *)

C17_ArchivedBeforeRemoved ==
    [][\A r \in table \ table' : \E t \in DOMAIN cold' : r \in cold'[t]]_vars

\* C18: when archive_older_than(d) returns Ok(n), the rows left are those
\* stamped at or after now - d * 86400, no such row was removed, and n is the
\* number of rows removed.
C18_ArchiveCutsAtRequestedAge ==
    [][/\ actor = "running"
       /\ queue # <<>>
       /\ Head(queue).msg = "Archive"
       /\ last' # last
       /\ last'.op = "archive"
       /\ last'.res = "Ok"
       => LET requested == now - Head(queue).days * SECONDS_PER_DAY IN
          /\ \A r \in table' : r.ts >= requested
          /\ \A r \in table \ table' : r.ts < requested
          /\ last'.val = Cardinality(table \ table')]_vars

\* C19: append_non_blocking always completes at once; it returns Ok exactly
\* when the entry joined the queue, and on a full queue of a live actor it
\* returns the backpressure error and leaves the queue as it was.
C19_Returned ==
    last'.op = "append_non_blocking" /\ last'.n = last.n + 1

C19_NonBlockingAppend ==
    /\ [][C19_Returned =>
            /\ last'.res = "Ok" <=>
                 /\ Len(queue') = Len(queue) + 1
                 /\ queue'[Len(queue')].msg = "Append"
            /\ last'.res # "Ok" => queue' = queue
            /\ ~ActorGone /\ Len(queue) >= QueueCapacity =>
                 last'.res = "Backpressure"]_vars
    /\ [](waiting = NoWait /\ last.n < MaxLedgerCalls =>
            ENABLED append_non_blocking)

C19_Witness ==
    /\ last.op = "append_non_blocking"
    /\ last.res = "Backpressure"
    /\ Len(queue) = QueueCapacity

\* C20: once an insert of the actor has failed, the actor handles no further
\* message, no client is left waiting for a reply, and every call made
\* afterwards returns InvalidQuery.
C20_FailStop ==
    /\ [](actor = "write_failed" => queue = <<>> /\ waiting = NoWait)
    /\ [][actor = "write_failed" =>
            /\ actor' = "write_failed"
            /\ table' = table
            /\ cold' = cold
            /\ last' # last => last'.res = "InvalidQuery"]_vars
    /\ [][actor' = "write_failed" /\ actor # "write_failed" /\ waiting # NoWait =>
            last'.op = waiting.op /\ last'.res = "InvalidQuery"]_vars

C20_Witness ==
    /\ actor = "write_failed"
    /\ last.op \in {"count", "archive"}
    /\ last.res = "InvalidQuery"
    /\ last.n >= 2

-----------------------------------------------------------------------------
(* Claims about functions called on their own (checked under SpecFunctions) *)

\* The secret values SECRET_PATTERNS match in meta: the word assigned to a
\* key name, and every sk- token
C21_Matched(meta) ==
    {meta[i] : i \in {j \in DOMAIN meta : meta[j] \in SkTokens}}
    \cup {meta[i] : i \in {j \in DOMAIN meta :
              /\ j >= 3
              /\ meta[j] \in Words
              /\ meta[j - 1] \in Assigns
              /\ meta[j - 2] \in KeyNames}}

\* C21: metadata that matches a secret pattern leaves scrub_secrets with
\* [REDACTED] in it and without any matched secret value.
C21_SecretsRedacted ==
    fcall.fn = "scrub_secrets" /\ C21_Matched(fcall.arg) # {} =>
        /\ REDACTED \in Range(fcall.ret)
        /\ C21_Matched(fcall.arg) \cap Range(fcall.ret) = {}

\* C22: the final score is max(model, heuristic) when the model call
\* succeeded and the heuristic score when it failed, so it is never below
\* the heuristic score.
C22_FinalScoreIsMax ==
    fcall.fn = "score_intent" =>
        LET heuristic == score_with_heuristics(fcall.arg.method, fcall.arg.params)
            model == fcall.arg.model
        IN  /\ model # ModelFailed =>
                 /\ fcall.ret \in {model, heuristic}
                 /\ fcall.ret >= model
            /\ model = ModelFailed => fcall.ret = heuristic
            /\ fcall.ret >= heuristic

\* C22's case: the model answered with less than the heuristic score
C22_Witness ==
    /\ fcall.fn = "score_intent"
    /\ fcall.arg.model # ModelFailed
    /\ fcall.arg.model < fcall.ret

\* The rule table for execute_command, first match wins
C30_Table(c) ==
    LET l == ToLower(c)
        fetch == Contains(l, <<"c","u","r","l">>) \/ Contains(l, <<"w","g","e","t">>)
    IN  IF fetch /\ (Contains(l, <<"|"," ","b","a","s","h">>) \/ Contains(l, <<"|"," ","s","h">>))
        THEN 95
        ELSE IF fetch /\ (Contains(l, <<".","s","h">>) \/ Contains(l, <<".","p","y">>))
        THEN 85
        ELSE IF fetch
        THEN 70
        ELSE IF StartsWith(l, <<"c","h","m","o","d"," ","7","7","7">>)
                \/ Contains(l, <<"c","h","m","o","d"," ","-","r"," ","7","7","7">>)
        THEN 90
        ELSE IF Contains(l, <<"n","c"," ">>) \/ Contains(l, <<"n","e","t","c","a","t">>)
        THEN 60
        ELSE IF Contains(l, <<"t","a","r"," ">>) /\ Contains(l, <<"-","c">>)
        THEN 50
        ELSE 20

\* C30: the heuristic score of an execute_command intent is the one the rule
\* table gives: 0.95, 0.85, 0.70, 0.90 (chmod 777 with or without -R), 0.60,
\* 0.50, and 0.20 for anything else.
C30_CommandScoreFollowsTable ==
    fcall.fn = "score_command" => fcall.ret = C30_Table(fcall.arg)

C28_NetworkDenyWins ==
    fcall.fn = "allows_network" =>
        /\ NetworkDeny \in fcall.arg.manifest.capabilities => ~fcall.ret
        /\ fcall.arg.method \in {"write_file", "read_file", "list_directory", "delete_file"}
              => ~fcall.ret

\* C28's case: the flag says yes and NetworkDeny says no
C28_Witness ==
    /\ fcall.fn = "allows_network"
    /\ fcall.arg.manifest.allow_network
    /\ NetworkDeny \in fcall.arg.manifest.capabilities
    /\ ~fcall.ret

\* C29: with a telemetry secret configured, an upgrade on /telemetry is
\* accepted exactly when the token parameter equals the secret; with no
\* secret configured every upgrade is accepted.
C29_TokenGatesUpgrade ==
    fcall.fn = "telemetry_handler" =>
        IF fcall.arg.secret # NoSecret
        THEN fcall.ret = "upgrade" <=> fcall.arg.token = fcall.arg.secret
        ELSE fcall.ret = "upgrade"

\* The first whitespace-delimited token of a trimmed command
C31_FirstToken(c) ==
    LET t == Trim(c)
        ends == {i \in 1..Len(t) : t[i] = " "}
        stop == IF ends = {} THEN Len(t) + 1
                ELSE CHOOSE i \in ends : \A j \in ends : i <= j
    IN  SubSeq(t, 1, stop - 1)

\* The three rules of phase P1 as stated, on (tool, arguments)
C31_Rule(tool, args) ==
    \/ /\ tool = "write_file"
       /\ args.path # AbsentStr
       /\ \/ StartsWith(args.path, <<"/","e","t","c">>)
          \/ Contains(args.path, <<".",".">>)
    \/ /\ tool = "execute_command"
       /\ args.command # AbsentStr
       /\ C31_FirstToken(args.command) = <<"r","m">>

\* C31: the static policy denies an intent if and only if it is a write_file
\* with a path starting with /etc or containing '..', or an execute_command
\* whose first whitespace-delimited token after trimming is exactly rm.
C31_DeniesExactlyTheThreeRules ==
    (fcall.fn = "check_intent" /\ fcall.arg.method = "tools/call") =>
        (fcall.ret = "Err" <=> C31_Rule(tool_name(fcall.arg), tool_args(fcall.arg)))

\* C33: a mandate whose trailer signature was produced by a key other than
\* the sovereign key is never spawned by a pulse, even when the signature
\* verifies under the public key of its own trailer and its did carries the
\* sovereign public key.
C33_ForeignSignatureNeverSpawned ==
    (spawned # NoSpawn /\ spawned.via = "pulse" /\ spawned.file.sig # NoSig) =>
        spawned.file.sig.signer = SovereignKey

-----------------------------------------------------------------------------
(* Claims about the orchestrator's main loop (checked under SpecOrchestrator) *)

\* C32: the territory of a mandate is copied into its per-version archive
\* directory once, on the first pulse that sees the version; later pulses
\* with the same version leave the directory as it is.  (Every mandate of the
\* model carries version 1.0.0, so agent_id names the directory.)
C32_SnapshotOncePerVersion ==
    \A n \in Names : archive[n] <= 1

\* C35: an injected signal is broadcast only if the governance check ran and
\* did not judge it NON_COMPLIANT with CRITICAL risk; a critical verdict sets
\* the halted flag and sends GOVERNANCE_HALT instead; when the check fails the
\* signal is not broadcast.
C35_InjectNeedsClearedCheck ==
    /\ tx_telemetry = "USER_INJECTION" =>
          last_check \notin {NoCheck, CheckFailed, Critical}
    /\ last_check = Critical => is_halted /\ tx_telemetry = "GOVERNANCE_HALT"
    /\ last_check = CheckFailed => tx_telemetry # "USER_INJECTION"

\* C36: once is_halted is set it stays set; no later step of the loop runs a
\* pulse or sends HEARTBEAT, whatever file events arrive and whether or not a
\* pulse was pending, and the loop keeps taking commands off the channel.
C36_HaltIsPermanent ==
    /\ [][is_halted =>
            /\ is_halted'
            /\ loop_pulses' = loop_pulses
            /\ last_pulse' = NoPulse
            /\ tx_telemetry' # "HEARTBEAT"
            /\ loop_pc' = "drain"]_vars
    /\ [](is_halted /\ cmd_rx # <<>> =>
            ENABLED (\E decision \in Decisions : DrainCommand(decision)))

C36_Witness ==
    /\ is_halted
    /\ pending_pulse /\ quiet
    /\ last_check \in Decisions \ {Critical}

\* C37: the loop starts no more pulses than there were changes made to the
\* watched directories from outside: a pulse's own writes start no pulse.
C37_OnePulsePerExternalChange ==
    loop_pulses <= drops

\* C39: a pulse that reaches the directory loop spawns every file that passes
\* the three locks, whatever the other files are and whatever their cells do,
\* and the orchestrator survives it.
C39_PulseQuarantinesFailures ==
    [][loop_pulses' > loop_pulses =>
          /\ loop_pc' # "panicked"
          /\ last_pulse'.entered =>
                last_pulse'.spawned \ {"repair_cell"} =
                    {n \in Names \ {"repair_cell"} :
                        /\ mandates[n] \notin {NoFile, MalformedFile}
                        /\ pulse_loads(mandates[n])}]_vars

-----------------------------------------------------------------------------
(* Claims about a telemetry subscriber (checked under SpecTelemetry) *)

\* C34: a subscriber that falls more than the channel's capacity behind
\* loses the overwritten signals only: while its socket is open its
\* forwarding task keeps running, so signals sent later still reach it, and
\* no sender ever waits for it.
C34_LaggingSubscriberKeepsForwarding ==
    /\ socket_open => forwarding
    /\ broadcasts < MaxSignals => ENABLED Broadcast

-----------------------------------------------------------------------------
(* A further claim about the audit ledger (checked under SpecLedger) *)

\* C38: no entry whose append returned Ok is lost: an append message waiting
\* in the queue behind the one the running actor is handling either is still
\* queued after the step or has its entries in the table.
C38_QueuedEntriesArePersisted ==
    [][actor = "running" =>
          \A i \in 2..Len(queue) :
              queue[i].msg \in {"Append", "AppendBatch"} =>
                  \/ queue[i] \in Range(queue')
                  \/ \A j \in DOMAIN queue[i].entries :
                        \E r \in table' : r.entry = queue[i].entries[j]]_vars

-----------------------------------------------------------------------------
(* A further claim about the supervisor (checked under SpecSupervisorLive) *)

\* C40: the two supervisor locks are never taken in a cyclic order: whoever
\* holds the executor lock asks for no other lock, a caller inside call_mcp
\* can always be followed by a step of some caller, every caller returns and
\* every lock is released again.
C40_NoLockCycle ==
    /\ [](\A t \in Callers : inner_guard = t => sup_pc[t] \in {"write", "read"})
    /\ []((\E t \in Callers : sup_pc[t] # "idle") =>
             ENABLED (\E t \in Callers : CallerProgress(t)))
    /\ \A t \in Callers : (sup_pc[t] # "idle") ~> (sup_pc[t] = "idle")
    /\ (inner_guard # NoCaller) ~> (inner_guard = NoCaller)
    /\ (count_guard # NoCaller) ~> (count_guard = NoCaller)

\* One caller holds the counter lock and waits for the executor lock while
\* the other holds the executor lock inside call_wasm
C40_Witness ==
    /\ count_guard = 1 /\ sup_pc[1] = "replace"
    /\ inner_guard = 2 /\ sup_pc[2] = "read"

====
